---- MODULE Spec2Model ----
(***************************************************************************)
(* Protocol/state engine of the Dreame mower integration:                   *)
(*   - PoseCoverageHandler (property 1:4), dreame/property/pose_coverage.py *)
(*   - DreameMowerDevice dispatch and the stop-then-dock command sequence,  *)
(*     dreame/device.py                                                     *)
(*                                                                         *)
(* Python floats are modelled as exact rationals <<n, d>> in lowest terms,  *)
(* Optional values as <<>> (None) or <<v>>.                                 *)
(***************************************************************************)
EXTENDS Integers, Sequences, FiniteSets, TLC

(***************************************************************************)
(* Bounds of the model                                                      *)
(***************************************************************************)
\* Length at which the path history starts evicting. The code evicts at 1000
\* (pose_coverage.py:153); the model evicts at this scaled-down length.
PathHistoryCap == 3

(***************************************************************************)
(* Program constants                                                        *)
(***************************************************************************)
SENTINEL_BYTE == 206
FULL_PAYLOAD_LENGTH == 31
SHORT_PAYLOAD_LENGTH == 6
MIN_VALUE_LENGTH == 8
X_POSITION == 0
Y_POSITION == 2
HEADING_POSITION == 6
SEGMENT_POSITION == 22
CURRENT_AREA_POSITION == 28
TOTAL_AREA_POSITION == 25
\* asyncio.wait_for(..., timeout=30.0), in seconds
WAIT_TIMEOUT == 30
\* status code 1 = mowing
STATUS_MOWING == 1

(***************************************************************************)
(* Optional values and exact rationals                                      *)
(***************************************************************************)
None == <<>>

Some(v) == <<v>>

Val(o) == o[1]

RECURSIVE GCD(_, _)
GCD(a, b) == IF b = 0 THEN a ELSE GCD(b, a % b)

\* n/d in lowest terms, n >= 0, d > 0
Rat(n, d) == LET g == GCD(n, d) IN <<n \div g, d \div g>>

RatDiv(a, b) == Rat(a[1] * b[2], a[2] * b[1])

RatMul(a, b) == Rat(a[1] * b[1], a[2] * b[2])

RatLeq(a, b) == a[1] * b[2] <= b[1] * a[2]

RatMin(a, b) == IF RatLeq(a, b) THEN a ELSE b

RatPos(a) == a[1] > 0

Zero == Rat(0, 1)

Hundred == Rat(100, 1)

(***************************************************************************)
(* Wire format of property 1:4: frames as the transport delivers them       *)
(***************************************************************************)
\* two's complement encoding of a 16-bit value, low byte first
LE16(v) == LET u == (v + 65536) % 65536 IN <<u % 256, u \div 256>>

\* 0xCE + 31 bytes + 0xCE, laid out as in the repository's test payloads
FullFrame(x, y, heading, segment, total, current, pad) ==
    <<SENTINEL_BYTE>> \o LE16(x) \o LE16(y) \o <<pad, pad>> \o LE16(heading)
        \o [i \in 1..14 |-> pad] \o LE16(segment) \o <<pad>> \o LE16(total)
        \o <<pad>> \o LE16(current) \o <<pad>> \o <<SENTINEL_BYTE>>

\* 0xCE + 6 bytes + 0xCE
ShortFrame(x, y, unknown) ==
    <<SENTINEL_BYTE>> \o LE16(x) \o LE16(y) \o LE16(unknown) \o <<SENTINEL_BYTE>>

(***************************************************************************)
(* PoseCoverageHandler                                                      *)
(***************************************************************************)
\* PoseCoverageHandler.__init__
PoseCoverageHandlerInit ==
    [ current_area_sqm  |-> None,
      total_area_sqm    |-> None,
      progress_percent  |-> None,
      mission_completed |-> FALSE,
      x_coordinate      |-> None,
      y_coordinate      |-> None,
      segment           |-> None,
      heading           |-> None,
      path_history      |-> <<>> ]

\* the reads raise ValueError when the two bytes are not inside the payload,
\* and bytes([...]) raises when a value is no byte
ReadRaises(payload, offset) ==
    \/ offset + 1 >= Len(payload)
    \/ payload[offset + 1] \notin 0..255
    \/ payload[offset + 2] \notin 0..255

\* struct.unpack('<H', ...): payload is 0-indexed in the code
read_uint16_le(payload, offset) ==
    payload[offset + 1] + 256 * payload[offset + 2]

\* mutant: the signed read does not fold the upper half into the negatives
read_int16_le_unsigned(payload, offset) ==
    payload[offset + 1] + 256 * payload[offset + 2]

\* struct.unpack('<h', ...)
read_int16_le(payload, offset) ==
    LET u == read_uint16_le(payload, offset)
    IN  IF u >= 32768 THEN u - 65536 ELSE u

\* mutant: the min(100.0, ...) is missing
ProgressOf_NoClamp(current_area_sqm, total_area_sqm, mission_completed) ==
    LET calculated ==
            IF RatPos(total_area_sqm)
            THEN RatMul(RatDiv(current_area_sqm, total_area_sqm), Hundred)
            ELSE Zero
    IN  IF mission_completed /\ RatPos(calculated) THEN Hundred ELSE calculated

\* mutant: a completed mission forces 100 without the "progress_percent > 0" test
ProgressOf_ForceZero(current_area_sqm, total_area_sqm, mission_completed) ==
    LET calculated ==
            IF RatPos(total_area_sqm)
            THEN RatMin(Hundred, RatMul(RatDiv(current_area_sqm, total_area_sqm), Hundred))
            ELSE Zero
    IN  IF mission_completed THEN Hundred ELSE calculated

\* progress_percent as _parse_full_format computes it (lines 126-133)
ProgressOf(current_area_sqm, total_area_sqm, mission_completed) ==
    LET calculated ==
            IF RatPos(total_area_sqm)
            THEN RatMin(Hundred, RatMul(RatDiv(current_area_sqm, total_area_sqm), Hundred))
            ELSE Zero
    IN  IF mission_completed /\ RatPos(calculated) THEN Hundred ELSE calculated

\* mutant: beyond the cap the newest point is dropped, not the oldest
AppendPath_DropNewest(path_history, path_point) ==
    LET appended == Append(path_history, path_point)
    IN  IF Len(appended) > PathHistoryCap
        THEN SubSeq(appended, 1, PathHistoryCap)
        ELSE appended

\* self._path_history.append(path_point); pop(0) beyond the cap
AppendPath(path_history, path_point) ==
    LET appended == Append(path_history, path_point)
    IN  IF Len(appended) > PathHistoryCap THEN Tail(appended) ELSE appended

parse_full_format(h, payload) ==
    IF \E o \in {X_POSITION, Y_POSITION, HEADING_POSITION, SEGMENT_POSITION,
                 CURRENT_AREA_POSITION, TOTAL_AREA_POSITION} : ReadRaises(payload, o)
    THEN [ok |-> FALSE, h |-> h]
    ELSE LET x == read_int16_le(payload, X_POSITION)
             y == read_int16_le(payload, Y_POSITION)
             heading == read_int16_le(payload, HEADING_POSITION)
             segment == read_uint16_le(payload, SEGMENT_POSITION)
             current_area_sqm == Rat(read_uint16_le(payload, CURRENT_AREA_POSITION), 100)
             total_area_sqm == Rat(read_uint16_le(payload, TOTAL_AREA_POSITION), 100)
         IN  [ok |-> TRUE,
              h  |-> [h EXCEPT
                        !.x_coordinate = Some(x),
                        !.y_coordinate = Some(y),
                        !.heading = Some(heading),
                        !.segment = Some(segment),
                        !.current_area_sqm = Some(current_area_sqm),
                        !.total_area_sqm = Some(total_area_sqm),
                        !.progress_percent =
                            Some(ProgressOf(current_area_sqm, total_area_sqm,
                                            h.mission_completed)),
                        !.path_history =
                            AppendPath(h.path_history,
                                       [x |-> x, y |-> y, heading |-> heading,
                                        segment |-> segment])]]

\* mutant: the short format also takes bytes 4-5 as the heading
parse_short_format_heading(h, payload) ==
    IF ReadRaises(payload, 0) \/ ReadRaises(payload, 2)
    THEN [ok |-> FALSE, h |-> h]
    ELSE [ok |-> TRUE,
          h  |-> [h EXCEPT
                    !.x_coordinate = Some(read_int16_le(payload, 0)),
                    !.y_coordinate = Some(read_int16_le(payload, 2)),
                    !.heading = Some(read_int16_le(payload, 4))]]

parse_short_format(h, payload) ==
    IF ReadRaises(payload, 0) \/ ReadRaises(payload, 2)
    THEN [ok |-> FALSE, h |-> h]
    ELSE [ok |-> TRUE,
          h  |-> [h EXCEPT
                    !.x_coordinate = Some(read_int16_le(payload, 0)),
                    !.y_coordinate = Some(read_int16_le(payload, 2))]]

\* mutant: only the first sentinel is verified
parse_value_first_sentinel(h, value) ==
    IF Len(value) < MIN_VALUE_LENGTH
    THEN [ok |-> FALSE, h |-> h]
    ELSE IF value[1] # SENTINEL_BYTE
    THEN [ok |-> FALSE, h |-> h]
    ELSE LET payload == SubSeq(value, 2, Len(value) - 1)
         IN  IF Len(payload) = FULL_PAYLOAD_LENGTH THEN parse_full_format(h, payload)
             ELSE IF Len(payload) = SHORT_PAYLOAD_LENGTH THEN parse_short_format(h, payload)
             ELSE [ok |-> FALSE, h |-> h]

\* PoseCoverageHandler.parse_value; every value of the model is a list
parse_value(h, value) ==
    IF Len(value) < MIN_VALUE_LENGTH
    THEN [ok |-> FALSE, h |-> h]
    ELSE IF value[1] # SENTINEL_BYTE \/ value[Len(value)] # SENTINEL_BYTE
    THEN [ok |-> FALSE, h |-> h]
    ELSE LET payload == SubSeq(value, 2, Len(value) - 1)
         IN  IF Len(payload) = FULL_PAYLOAD_LENGTH THEN parse_full_format(h, payload)
             ELSE IF Len(payload) = SHORT_PAYLOAD_LENGTH THEN parse_short_format(h, payload)
             ELSE [ok |-> FALSE, h |-> h]

\* mutant: the progress is capped but the flag is not set
mark_mission_completed_no_flag(h) ==
    [h EXCEPT
       !.progress_percent =
           IF h.progress_percent # None /\ RatPos(Val(h.progress_percent))
           THEN Some(Hundred)
           ELSE h.progress_percent]

\* mutant: every defined progress is set to 100, a progress of 0 too
mark_mission_completed_force_any(h) ==
    [h EXCEPT
       !.mission_completed = TRUE,
       !.progress_percent = IF h.progress_percent # None THEN Some(Hundred) ELSE @]

mark_mission_completed(h) ==
    [h EXCEPT
       !.mission_completed = TRUE,
       !.progress_percent =
           IF h.progress_percent # None /\ RatPos(Val(h.progress_percent))
           THEN Some(Hundred)
           ELSE h.progress_percent]

\* mutant: the reset for a new mission also starts a new path
reset_mission_completion_new_path(h) ==
    [h EXCEPT !.mission_completed = FALSE, !.path_history = <<>>]

reset_mission_completion(h) == [h EXCEPT !.mission_completed = FALSE]

clear_path_history(h) == [h EXCEPT !.path_history = <<>>]

(***************************************************************************)
(* JSON values as the transport delivers them: a value and its Python type  *)
(***************************************************************************)
IntValue(v) == [t |-> "int", v |-> v]

StrValue(v) == [t |-> "str", v |-> v]

ListValue(v) == [t |-> "list", v |-> v]

DictValue(v) == [t |-> "dict", v |-> v]

\* int(value) raises for the strings of the model (none is numeric) and for
\* lists and dicts
int_raises(value) == value.t # "int"

\* dict.get(key)
Get(dict, key) == IF key \in DOMAIN dict THEN Some(dict[key]) ELSE None

(***************************************************************************)
(* TaskHandler and SchedulingPropertyHandler (property 2:50)                *)
(***************************************************************************)
\* TaskHandler.__init__
TaskHandlerInit ==
    [ task_type        |-> None,
      area_id          |-> None,
      execution_active |-> None,
      coverage_target  |-> None,
      region_id        |-> None,
      task_active      |-> None,
      elapsed_time     |-> None ]

\* a parse that keeps an optional field of an earlier message when this
\* message omits it
TaskHandler_parse_value_keep(h, value) ==
    IF value.t # "dict" THEN [ok |-> FALSE, h |-> h]
    ELSE IF "t" \notin DOMAIN value.v \/ "d" \notin DOMAIN value.v
    THEN [ok |-> FALSE, h |-> h]
    ELSE IF ~({"exe", "o", "status"} \subseteq DOMAIN value.v.d)
    THEN [ok |-> FALSE, h |-> h]
    ELSE [ok |-> TRUE,
          h  |-> [h EXCEPT
                    !.task_type = Some(IF value.v.t = "TASK" THEN "TASK" ELSE "UNKNOWN"),
                    !.execution_active = Some(value.v.d.exe),
                    !.coverage_target = Some(value.v.d.o),
                    !.task_active = Some(value.v.d.status),
                    !.area_id = IF "area_id" \in DOMAIN value.v.d
                                THEN Some(value.v.d.area_id) ELSE @,
                    !.region_id = IF "region_id" \in DOMAIN value.v.d
                                  THEN Some(value.v.d.region_id) ELSE @,
                    !.elapsed_time = IF "time" \in DOMAIN value.v.d
                                     THEN Some(value.v.d.time) ELSE @]]

\* TaskHandler.parse_value: each field is assigned as soon as it is read, a
\* missing key raises KeyError and ends the parse with False. The 'd' of the
\* model's values is always a dict.
TaskHandler_parse_value(h, value) ==
    IF value.t # "dict" THEN [ok |-> FALSE, h |-> h]
    ELSE IF "t" \notin DOMAIN value.v THEN [ok |-> FALSE, h |-> h]
    ELSE LET h1 == [h EXCEPT !.task_type =
                        Some(IF value.v.t = "TASK" THEN "TASK" ELSE "UNKNOWN")]
         IN  IF "d" \notin DOMAIN value.v THEN [ok |-> FALSE, h |-> h1]
             ELSE LET task_data == value.v.d
                  IN  IF "exe" \notin DOMAIN task_data THEN [ok |-> FALSE, h |-> h1]
                      ELSE LET h2 == [h1 EXCEPT !.execution_active = Some(task_data.exe)]
                           IN  IF "o" \notin DOMAIN task_data
                               THEN [ok |-> FALSE, h |-> h2]
                               ELSE LET h3 == [h2 EXCEPT
                                                 !.coverage_target = Some(task_data.o)]
                                    IN  IF "status" \notin DOMAIN task_data
                                        THEN [ok |-> FALSE, h |-> h3]
                                        ELSE [ok |-> TRUE,
                                              h  |-> [h3 EXCEPT
                                                  !.task_active = Some(task_data.status),
                                                  !.area_id = Get(task_data, "area_id"),
                                                  !.region_id = Get(task_data, "region_id"),
                                                  !.elapsed_time = Get(task_data, "time")]]

\* TaskHandler.get_notification_data
TaskNotificationData(h) ==
    <<h.task_type, h.area_id, h.execution_active, h.coverage_target, h.region_id,
      h.task_active, h.elapsed_time>>

\* the dict {}
EmptyDict == [key \in {} |-> 0]

\* SettingsChangeHandler.__init__
SettingsChangeHandlerInit == [last_value |-> None]

\* SettingsChangeHandler.parse_value: the dict is kept and logged
SettingsChangeHandler_parse_value(h, value) ==
    IF value.t # "dict" THEN [ok |-> FALSE, h |-> h]
    ELSE [ok |-> TRUE, h |-> [h EXCEPT !.last_value = Some(value.v)]]

\* SummaryHandler.__init__
SummaryHandlerInit == [summary_data |-> EmptyDict]

\* mutant: an empty summary is rejected
SummaryHandler_parse_value_nonempty(h, value) ==
    IF value.t # "dict" \/ DOMAIN value.v = {} THEN [ok |-> FALSE, h |-> h]
    ELSE [ok |-> TRUE, h |-> [h EXCEPT !.summary_data = value.v]]

\* SummaryHandler.parse_value: a dict is copied, everything else is invalid
SummaryHandler_parse_value(h, value) ==
    IF value.t # "dict" THEN [ok |-> FALSE, h |-> h]
    ELSE [ok |-> TRUE, h |-> [h EXCEPT !.summary_data = value.v]]

\* SchedulingPropertyHandler.__init__
SchedulingPropertyHandlerInit ==
    [task_handler            |-> TaskHandlerInit,
     settings_change_handler |-> SettingsChangeHandlerInit,
     summary_handler         |-> SummaryHandlerInit]

\* SchedulingPropertyHandler._handle_task_property
handle_task_property(h, value) ==
    LET Result(r) ==
            [ok  |-> r.ok,
             h   |-> [h EXCEPT !.task_handler = r.h],
             out |-> IF r.ok THEN <<<<"scheduling_task", TaskNotificationData(r.h)>>>>
                     ELSE <<>>]
    IN  Result(TaskHandler_parse_value(h.task_handler, value))

\* SchedulingPropertyHandler._handle_settings_change_property: parse and log
handle_settings_change_property(h, value) ==
    LET Result(r) ==
            [ok  |-> r.ok,
             h   |-> [h EXCEPT !.settings_change_handler = r.h],
             out |-> <<>>]
    IN  Result(SettingsChangeHandler_parse_value(h.settings_change_handler, value))

\* SchedulingPropertyHandler._handle_summary_property
handle_summary_property(h, value) ==
    LET Result(r) ==
            [ok  |-> r.ok,
             h   |-> [h EXCEPT !.summary_handler = r.h],
             out |-> IF r.ok THEN <<<<"scheduling_summary", r.h.summary_data>>>>
                     ELSE <<>>]
    IN  Result(SummaryHandler_parse_value(h.summary_handler, value))

(***************************************************************************)
(* MowerControlStatusHandler and MowerControlPropertyHandler (2:56)         *)
(***************************************************************************)
\* MowerControlStatusHandler.__init__
MowerControlStatusHandlerInit ==
    [action |-> None, status_code |-> None, raw_status |-> None]

\* a 2:56 value of the usual shape: {'status': [[id, code]]}
ControlStatus(id, code) ==
    DictValue([status |-> ListValue(<<ListValue(<<IntValue(id), IntValue(code)>>)>>)])

\* {'status': []}
ControlStatusEmpty == DictValue([status |-> ListValue(<<>>)])

\* mutant: the first element of the first entry is taken as the status code
MowerControlStatusHandler_parse_value_first(h, value) ==
    IF value.t # "dict" THEN [ok |-> FALSE, h |-> h]
    ELSE IF "status" \notin DOMAIN value.v THEN [ok |-> FALSE, h |-> h]
    ELSE IF value.v.status.t # "list" THEN [ok |-> FALSE, h |-> h]
    ELSE LET status_array == value.v.status.v
             h1 == [h EXCEPT !.raw_status = Some(status_array)]
         IN  IF Len(status_array) = 0
             THEN [ok |-> TRUE, h |-> [h1 EXCEPT !.status_code = None, !.action = None]]
             ELSE IF status_array[1].t # "list" \/ Len(status_array[1].v) < 2
             THEN [ok |-> FALSE, h |-> h1]
             ELSE IF int_raises(status_array[1].v[1]) THEN [ok |-> FALSE, h |-> h1]
             ELSE LET code == status_array[1].v[1].v
                      h2 == [h1 EXCEPT !.status_code = Some(code)]
                  IN  IF code = 0
                      THEN [ok |-> TRUE, h |-> [h2 EXCEPT !.action = Some("continue")]]
                      ELSE IF code = 2
                      THEN [ok |-> TRUE, h |-> [h2 EXCEPT !.action = Some("completed")]]
                      ELSE IF code = 4
                      THEN [ok |-> TRUE, h |-> [h2 EXCEPT !.action = Some("pause")]]
                      ELSE [ok |-> FALSE, h |-> h2]

\* MowerControlStatusHandler.parse_value; every exception raised on the way
\* (ValueError, TypeError, IndexError) is caught and the result is False
MowerControlStatusHandler_parse_value(h, value) ==
    IF value.t # "dict" THEN [ok |-> FALSE, h |-> h]
    ELSE IF "status" \notin DOMAIN value.v THEN [ok |-> FALSE, h |-> h]
    ELSE IF value.v.status.t # "list" THEN [ok |-> FALSE, h |-> h]
    ELSE LET status_array == value.v.status.v
             h1 == [h EXCEPT !.raw_status = Some(status_array)]
         IN  IF Len(status_array) = 0
             THEN [ok |-> TRUE, h |-> [h1 EXCEPT !.status_code = None, !.action = None]]
             ELSE IF status_array[1].t # "list" \/ Len(status_array[1].v) < 2
             THEN [ok |-> FALSE, h |-> h1]
             ELSE IF int_raises(status_array[1].v[2]) THEN [ok |-> FALSE, h |-> h1]
             ELSE LET code == status_array[1].v[2].v
                      h2 == [h1 EXCEPT !.status_code = Some(code)]
                  IN  IF code = 0
                      THEN [ok |-> TRUE, h |-> [h2 EXCEPT !.action = Some("continue")]]
                      ELSE IF code = 2
                      THEN [ok |-> TRUE, h |-> [h2 EXCEPT !.action = Some("completed")]]
                      ELSE IF code = 4
                      THEN [ok |-> TRUE, h |-> [h2 EXCEPT !.action = Some("pause")]]
                      ELSE [ok |-> FALSE, h |-> h2]

\* MowerControlPropertyHandler.__init__
MowerControlPropertyHandlerInit ==
    [ status_handler   |-> MowerControlStatusHandlerInit,
      current_action   |-> None,
      last_status_code |-> None ]

\* MowerControlPropertyHandler._handle_status_property
handle_status_property(h, value) ==
    LET Result(r) ==
            IF r.ok
            THEN [ok  |-> TRUE,
                  h   |-> [ status_handler   |-> r.h,
                            current_action   |-> r.h.action,
                            last_status_code |-> r.h.status_code ],
                  out |-> <<<<"mower_control_status",
                              <<r.h.action, r.h.status_code, r.h.raw_status>>>>>>
                          \o (IF h.current_action # r.h.action
                              THEN <<<<"mower_action", r.h.action>>>> ELSE <<>>)
                          \o (IF h.last_status_code # r.h.status_code
                              THEN <<<<"mower_status_code", r.h.status_code>>>>
                              ELSE <<>>)]
            ELSE [ok |-> FALSE, h |-> [h EXCEPT !.status_handler = r.h], out |-> <<>>]
    IN  Result(MowerControlStatusHandler_parse_value(h.status_handler, value))

(***************************************************************************)
(* DeviceCodeHandler (2:2): the current code and its classification, which  *)
(* is fixed per code and puts a code in at most one of error and warning    *)
(***************************************************************************)
\* the codes of the model's table classified as errors and as warnings; every
\* other code is information
DEVICE_ERROR_CODES == {2}

DEVICE_WARNING_CODES == {1}

DeviceCodeHandlerInit == [device_code |-> None]

\* DeviceCodeHandler.parse_value: an integer code is stored
DeviceCodeHandler_parse_value(h, value) ==
    IF value.t # "int" THEN [ok |-> FALSE, h |-> h]
    ELSE [ok |-> TRUE, h |-> [h EXCEPT !.device_code = Some(value.v)]]

\* DeviceCodeHandler.device_code_is_error / device_code_is_warning
device_code_is_error(h) ==
    h.device_code # None /\ Val(h.device_code) \in DEVICE_ERROR_CODES

device_code_is_warning(h) ==
    h.device_code # None /\ Val(h.device_code) \in DEVICE_WARNING_CODES

(***************************************************************************)
(* DreameMowerDevice: state after construction                              *)
(***************************************************************************)
\* asyncio.Event: its flag and the future of the one coroutine waiting on it
\* ("none": nobody waits, "pending": waiting, "done": woken by set())
EventInit == [value |-> FALSE, waiter |-> "none"]

\* DreameMowerDevice.__init__
DeviceInit ==
    [ firmware                   |-> "Unknown",
      battery_percent            |-> 0,
      status_code                |-> 0,
      ota_state                  |-> None,
      firmware_install_state     |-> None,
      firmware_download_progress |-> None,
      scheduling_handler         |-> SchedulingPropertyHandlerInit,
      mower_control_handler      |-> MowerControlPropertyHandlerInit,
      pose_coverage_handler      |-> PoseCoverageHandlerInit,
      device_code_handler        |-> DeviceCodeHandlerInit,
      mission_completed_event    |-> EventInit,
      property_callbacks         |-> <<>> ]

\* asyncio.Event.set(): the flag becomes true and a waiting future is resolved
EventSet(e) ==
    [value |-> TRUE, waiter |-> IF e.waiter = "pending" THEN "done" ELSE e.waiter]

\* asyncio.Event.clear()
EventClear(e) == [e EXCEPT !.value = FALSE]

\* mutant: wait() returns at once whatever the flag
EventWait_NoBlock(e) == [e EXCEPT !.waiter = "done"]

\* asyncio.Event.wait() entered: returns at once when the flag is set
EventWait(e) == [e EXCEPT !.waiter = IF e.value THEN "done" ELSE "pending"]

\* the wait is over (returned, or cancelled by the timeout): the future is gone
EventLeave(e) == [e EXCEPT !.waiter = "none"]

(***************************************************************************)
(* Registry: (siid, piid) and (siid, eiid) pairs                            *)
(***************************************************************************)
Matches(id, siid, piid) == id[1] = siid /\ id[2] = piid

BATTERY_PROPERTY == <<3, 1>>

STATUS_PROPERTY == <<2, 1>>

POSE_COVERAGE_PROPERTY == <<1, 4>>

SCHEDULING_TASK_PROPERTY == <<2, 50>>

SCHEDULING_DND_PROPERTY == <<2, 51>>

SCHEDULING_SUMMARY_PROPERTY == <<2, 52>>

MOWER_CONTROL_STATUS_PROPERTY == <<2, 56>>

FIRMWARE_INSTALL_STATE_PROPERTY == <<1, 2>>

DEVICE_CODE_PROPERTY == <<2, 2>>

FIRMWARE_DOWNLOAD_PROGRESS_PROPERTY == <<1, 3>>

\* the keys of FIRMWARE_INSTALL_STATE_MAPPING: 2 = new firmware available,
\* 3 = installing
FIRMWARE_INSTALL_STATE_MAPPING == {2, 3}

FIRMWARE_VALIDATION_EVENT == <<1, 1>>

MISSION_COMPLETION_EVENT == <<4, 1>>

(***************************************************************************)
(* Dispatch. A handler returns the device after it, whether it reports the  *)
(* message handled, and the notifications it emitted, in order.             *)
(***************************************************************************)
Notification(name, value) == <<name, value>>

\* a registered callback: who it is and whether it raises when it is called
Callback(id, raises) == [id |-> id, raises |-> raises]

\* one invocation callback(property_name, value)
Call(callback, notification) == <<callback.id, notification[1], notification[2]>>

\* mutant: an exception of a callback leaves the loop and the function
notify_property_change_no_catch(callbacks, notification) ==
    LET raising == {i \in 1..Len(callbacks) : callbacks[i].raises}
        stop == IF raising = {} THEN Len(callbacks)
                ELSE CHOOSE i \in raising : \A j \in raising : i <= j
    IN  [calls  |-> [i \in 1..stop |-> Call(callbacks[i], notification)],
         raised |-> raising # {}]

\* mutant: the exception of a callback is logged and raised again once the
\* loop has called every callback
notify_property_change_reraise(callbacks, notification) ==
    [calls  |-> [i \in 1..Len(callbacks) |-> Call(callbacks[i], notification)],
     raised |-> \E i \in 1..Len(callbacks) : callbacks[i].raises]

\* DreameMowerDevice._notify_property_change: every registered callback is
\* called in list order; an Exception of a callback is caught and logged, so
\* the loop goes on and nothing is raised to the caller
notify_property_change(callbacks, notification) ==
    [calls  |-> [i \in 1..Len(callbacks) |-> Call(callbacks[i], notification)],
     raised |-> FALSE]

\* the calls of _notify_property_change that one handler run makes, in order;
\* a call that raised would end the run
RECURSIVE notify_all(_, _)
notify_all(callbacks, out) ==
    IF out = <<>> THEN <<>>
    ELSE LET Result(r) ==
                 IF r.raised THEN r.calls
                 ELSE r.calls \o notify_all(callbacks, Tail(out))
         IN  Result(notify_property_change(callbacks, Head(out)))

\* MissionCompletionEventHandler.handle_event: reports the event handled and
\* notifies "mission_completion_event" with the event's arguments
MissionCompletionHandleEvent(arguments) ==
    [handled |-> TRUE, out |-> <<Notification("mission_completion_event", arguments)>>]

HasValue(param) == "value" \in DOMAIN param

\* a branch of _handle_mqtt_property_update that returns False
Unhandled(d) == [handled |-> FALSE, device |-> d, out |-> <<>>]

\* an exception in a branch of _handle_mqtt_property_update: the outer except
\* logs it and the function goes on to its final "return True"
Swallowed(d) == [handled |-> TRUE, device |-> d, out |-> <<>>]

\* mutant: every change of the status code resets the mission completion
status_update_reset_any(d, status_code) ==
    [handled |-> TRUE,
     device  |-> [d EXCEPT
                    !.status_code = status_code,
                    !.pose_coverage_handler =
                        IF d.status_code # status_code
                        THEN reset_mission_completion(@)
                        ELSE @],
     out     |-> IF d.status_code # status_code
                 THEN <<Notification("status", status_code)>>
                 ELSE <<>>]

\* the STATUS_PROPERTY branch, after int(message["value"])
status_update(d, status_code) ==
    [handled |-> TRUE,
     device  |-> [d EXCEPT
                    !.status_code = status_code,
                    !.pose_coverage_handler =
                        IF d.status_code # status_code /\ status_code = STATUS_MOWING
                        THEN reset_mission_completion(@)
                        ELSE @],
     out     |-> IF d.status_code # status_code
                 THEN <<Notification("status", status_code)>>
                 ELSE <<>>]

\* mutant: the pose notifications are sent only when the handler changed
pose_update_on_change(d, param) ==
    IF ~HasValue(param) \/ param.value.t # "list"
    THEN Unhandled(d)
    ELSE LET Result(r) ==
                 IF ~r.ok
                 THEN Unhandled(d)
                 ELSE [handled |-> TRUE,
                       device  |-> [d EXCEPT !.pose_coverage_handler = r.h],
                       out     |-> IF r.h = d.pose_coverage_handler THEN <<>>
                                   ELSE <<Notification("mowing_progress",
                                             <<r.h.current_area_sqm, r.h.total_area_sqm,
                                               r.h.progress_percent>>),
                                          Notification("mowing_coordinates",
                                             <<r.h.x_coordinate, r.h.y_coordinate,
                                               r.h.segment, r.h.heading>>)>>]
         IN  Result(parse_value(d.pose_coverage_handler, param.value.v))

\* the POSE_COVERAGE_PROPERTY branch: a missing value raises inside the inner
\* try, whose except returns False
pose_update(d, param) ==
    IF ~HasValue(param) \/ param.value.t # "list"
    THEN Unhandled(d)
    ELSE LET Result(r) ==
                 IF ~r.ok
                 THEN Unhandled(d)
                 ELSE [handled |-> TRUE,
                       device  |-> [d EXCEPT !.pose_coverage_handler = r.h],
                       out     |-> <<Notification("mowing_progress",
                                         <<r.h.current_area_sqm, r.h.total_area_sqm,
                                           r.h.progress_percent>>),
                                     Notification("mowing_coordinates",
                                         <<r.h.x_coordinate, r.h.y_coordinate,
                                           r.h.segment, r.h.heading>>)>>]
         IN  Result(parse_value(d.pose_coverage_handler, param.value.v))

\* mutant: a changed device code is also reported on the info channel
device_code_update_info_always(d, param) ==
    IF ~HasValue(param) THEN Swallowed(d)
    ELSE LET Result(r) ==
                 IF ~r.ok THEN Unhandled(d)
                 ELSE [handled |-> TRUE,
                       device  |-> [d EXCEPT !.device_code_handler = r.h],
                       out     |->
                           IF d.device_code_handler.device_code = r.h.device_code
                           THEN <<>>
                           ELSE <<Notification("device_code", Val(r.h.device_code))>>
                                \o (IF device_code_is_error(r.h)
                                    THEN <<Notification("device_code_error",
                                                        r.h.device_code)>>
                                    ELSE IF device_code_is_warning(r.h)
                                    THEN <<Notification("device_code_warning",
                                                        r.h.device_code)>>
                                    ELSE <<>>)
                                \o <<Notification("device_code_info",
                                                  r.h.device_code)>>]
         IN  Result(DeviceCodeHandler_parse_value(d.device_code_handler, param.value))

\* mutant: every parsed device code is notified, changed or not
device_code_update_no_compare(d, param) ==
    IF ~HasValue(param) THEN Swallowed(d)
    ELSE LET Result(r) ==
                 IF ~r.ok THEN Unhandled(d)
                 ELSE [handled |-> TRUE,
                       device  |-> [d EXCEPT !.device_code_handler = r.h],
                       out     |->
                           <<Notification("device_code", Val(r.h.device_code)),
                             IF device_code_is_error(r.h)
                             THEN Notification("device_code_error", r.h.device_code)
                             ELSE IF device_code_is_warning(r.h)
                             THEN Notification("device_code_warning", r.h.device_code)
                             ELSE Notification("device_code_info", r.h.device_code)>>]
         IN  Result(DeviceCodeHandler_parse_value(d.device_code_handler, param.value))

\* the DEVICE_CODE_PROPERTY branch: the code and one of the three cards are
\* notified when the parsed code differs from the code stored before
device_code_update(d, param) ==
    IF ~HasValue(param) THEN Swallowed(d)
    ELSE LET Result(r) ==
                 IF ~r.ok THEN Unhandled(d)
                 ELSE [handled |-> TRUE,
                       device  |-> [d EXCEPT !.device_code_handler = r.h],
                       out     |->
                           IF d.device_code_handler.device_code = r.h.device_code
                           THEN <<>>
                           ELSE <<Notification("device_code", Val(r.h.device_code)),
                                  IF device_code_is_error(r.h)
                                  THEN Notification("device_code_error",
                                                    r.h.device_code)
                                  ELSE IF device_code_is_warning(r.h)
                                  THEN Notification("device_code_warning",
                                                    r.h.device_code)
                                  ELSE Notification("device_code_info",
                                                    r.h.device_code)>>]
         IN  Result(DeviceCodeHandler_parse_value(d.device_code_handler, param.value))

\* the FIRMWARE_INSTALL_STATE_PROPERTY branch
firmware_install_state_update(d, param) ==
    IF ~HasValue(param) \/ int_raises(param.value)
    THEN Swallowed(d)
    ELSE IF param.value.v \notin FIRMWARE_INSTALL_STATE_MAPPING
    THEN Unhandled(d)
    ELSE [handled |-> TRUE,
          device  |-> [d EXCEPT !.firmware_install_state = Some(param.value.v)],
          out     |-> IF d.firmware_install_state # Some(param.value.v)
                      THEN <<Notification("firmware_install_state", param.value.v)>>
                      ELSE <<>>]

\* SchedulingPropertyHandler.handle_property_update
SchedulingPropertyHandler_handle_property_update(h, siid, piid, value) ==
    IF Matches(SCHEDULING_TASK_PROPERTY, siid, piid)
    THEN handle_task_property(h, value)
    ELSE IF Matches(SCHEDULING_DND_PROPERTY, siid, piid)
    THEN handle_settings_change_property(h, value)
    ELSE IF Matches(SCHEDULING_SUMMARY_PROPERTY, siid, piid)
    THEN handle_summary_property(h, value)
    ELSE [ok |-> FALSE, h |-> h, out |-> <<>>]

\* DreameMowerDevice._handle_mqtt_property_update, for the properties of the model
handle_mqtt_property_update(d, param) ==
    IF Matches(BATTERY_PROPERTY, param.siid, param.piid)
    THEN IF ~HasValue(param) \/ int_raises(param.value)
         THEN Swallowed(d)
         ELSE [handled |-> TRUE,
               device  |-> [d EXCEPT !.battery_percent = param.value.v],
               out     |-> IF d.battery_percent # param.value.v
                           THEN <<Notification("battery_percent", param.value.v)>>
                           ELSE <<>>]
    ELSE IF Matches(STATUS_PROPERTY, param.siid, param.piid)
    THEN IF ~HasValue(param) \/ int_raises(param.value)
         THEN Swallowed(d)
         ELSE status_update(d, param.value.v)
    ELSE IF \/ Matches(SCHEDULING_TASK_PROPERTY, param.siid, param.piid)
            \/ Matches(SCHEDULING_DND_PROPERTY, param.siid, param.piid)
            \/ Matches(SCHEDULING_SUMMARY_PROPERTY, param.siid, param.piid)
    THEN IF ~HasValue(param)
         THEN Swallowed(d)
         ELSE LET Result(r) ==
                      [handled |-> r.ok,
                       device  |-> [d EXCEPT !.scheduling_handler = r.h],
                       out     |-> r.out]
              IN  Result(SchedulingPropertyHandler_handle_property_update(
                             d.scheduling_handler, param.siid, param.piid,
                             param.value))
    ELSE IF Matches(MOWER_CONTROL_STATUS_PROPERTY, param.siid, param.piid)
    THEN IF ~HasValue(param)
         THEN Swallowed(d)
         ELSE LET Result(r) ==
                      [handled |-> r.ok,
                       device  |-> [d EXCEPT !.mower_control_handler = r.h],
                       out     |-> r.out]
              IN  Result(handle_status_property(d.mower_control_handler, param.value))
    ELSE IF Matches(POSE_COVERAGE_PROPERTY, param.siid, param.piid)
    THEN pose_update(d, param)
    ELSE IF Matches(FIRMWARE_INSTALL_STATE_PROPERTY, param.siid, param.piid)
    THEN firmware_install_state_update(d, param)
    ELSE IF Matches(FIRMWARE_DOWNLOAD_PROGRESS_PROPERTY, param.siid, param.piid)
    THEN IF ~HasValue(param) \/ int_raises(param.value)
         THEN Swallowed(d)
         ELSE IF param.value.v < 0 \/ param.value.v > 100
         THEN Unhandled(d)
         ELSE [handled |-> TRUE,
               device  |-> [d EXCEPT !.firmware_download_progress = Some(param.value.v)],
               out     |-> IF d.firmware_download_progress # Some(param.value.v)
                           THEN <<Notification("firmware_download_progress",
                                               param.value.v)>>
                           ELSE <<>>]
    ELSE IF Matches(DEVICE_CODE_PROPERTY, param.siid, param.piid)
    THEN device_code_update(d, param)
    ELSE Unhandled(d)

\* mutant: the completion event caps the progress but does not set the signal
handle_mqtt_event_no_signal(d, params) ==
    IF Matches(FIRMWARE_VALIDATION_EVENT, params.siid, params.eiid)
    THEN [handled |-> TRUE, device |-> d,
          out |-> <<Notification("firmware_validation", <<params.siid, params.eiid>>)>>]
    ELSE IF Matches(MISSION_COMPLETION_EVENT, params.siid, params.eiid)
    THEN LET r == MissionCompletionHandleEvent(params.arguments)
         IN  [handled |-> r.handled,
              device  |-> IF r.handled
                          THEN [d EXCEPT
                                  !.pose_coverage_handler = mark_mission_completed(@)]
                          ELSE d,
              out     |-> r.out]
    ELSE [handled |-> FALSE, device |-> d, out |-> <<>>]

\* mutant: the completion event sets the signal but does not mark the mission
\* completed in the pose coverage handler
handle_mqtt_event_no_mark(d, params) ==
    IF Matches(FIRMWARE_VALIDATION_EVENT, params.siid, params.eiid)
    THEN [handled |-> TRUE, device |-> d,
          out |-> <<Notification("firmware_validation", <<params.siid, params.eiid>>)>>]
    ELSE IF Matches(MISSION_COMPLETION_EVENT, params.siid, params.eiid)
    THEN LET r == MissionCompletionHandleEvent(params.arguments)
         IN  [handled |-> r.handled,
              device  |-> IF r.handled
                          THEN [d EXCEPT !.mission_completed_event = EventSet(@)]
                          ELSE d,
              out     |-> r.out]
    ELSE [handled |-> FALSE, device |-> d, out |-> <<>>]

\* mutant: every event that is not the firmware validation is taken for the
\* mission completion
handle_mqtt_event_any_completion(d, params) ==
    IF Matches(FIRMWARE_VALIDATION_EVENT, params.siid, params.eiid)
    THEN [handled |-> TRUE, device |-> d,
          out |-> <<Notification("firmware_validation", <<params.siid, params.eiid>>)>>]
    ELSE LET r == MissionCompletionHandleEvent(params.arguments)
         IN  [handled |-> r.handled,
              device  |-> IF r.handled
                          THEN [d EXCEPT
                                  !.mission_completed_event = EventSet(@),
                                  !.pose_coverage_handler = mark_mission_completed(@)]
                          ELSE d,
              out     |-> r.out]

\* DreameMowerDevice._handle_mqtt_event
handle_mqtt_event(d, params) ==
    IF Matches(FIRMWARE_VALIDATION_EVENT, params.siid, params.eiid)
    THEN [handled |-> TRUE, device |-> d,
          out |-> <<Notification("firmware_validation", <<params.siid, params.eiid>>)>>]
    ELSE IF Matches(MISSION_COMPLETION_EVENT, params.siid, params.eiid)
    THEN LET r == MissionCompletionHandleEvent(params.arguments)
         IN  [handled |-> r.handled,
              device  |-> IF r.handled
                          THEN [d EXCEPT
                                  !.mission_completed_event = EventSet(@),
                                  !.pose_coverage_handler = mark_mission_completed(@)]
                          ELSE d,
              out     |-> r.out]
    ELSE [handled |-> FALSE, device |-> d, out |-> <<>>]

\* the test of _handle_message on one entry of params_list: the entry names
\* a siid and a piid, with or without a value
IsPropertyEntry(param) == "siid" \in DOMAIN param /\ "piid" \in DOMAIN param

\* the for loop of _handle_message over params_list: an entry that names no
\* siid or no piid is passed over, and the loop returns at the first entry
\* reported handled
RECURSIVE handle_params(_, _)
handle_params(d, params_list) ==
    IF params_list = <<>>
    THEN [handled |-> FALSE, device |-> d, out |-> <<>>]
    ELSE IF ~IsPropertyEntry(Head(params_list))
    THEN handle_params(d, Tail(params_list))
    ELSE LET Result(r) ==
                 IF r.handled
                 THEN r
                 ELSE [handle_params(r.device, Tail(params_list))
                           EXCEPT !.out = r.out \o @]
         IN  Result(handle_mqtt_property_update(d, Head(params_list)))

\* mutant: a props message is reported handled whatever its keys
handle_mqtt_props_always(d, params) ==
    IF "ota_state" \in DOMAIN params
    THEN [handled |-> TRUE,
          device  |-> [d EXCEPT !.ota_state = Some(params.ota_state)],
          out     |-> IF d.ota_state # Some(params.ota_state)
                      THEN <<Notification("ota_state", params.ota_state)>>
                      ELSE <<>>]
    ELSE [handled |-> TRUE, device |-> d, out |-> <<>>]

\* DreameMowerDevice._handle_mqtt_props: ota_state is stored, every other key
\* is logged; the result is handled_any
handle_mqtt_props(d, params) ==
    IF "ota_state" \in DOMAIN params
    THEN [handled |-> TRUE,
          device  |-> [d EXCEPT !.ota_state = Some(params.ota_state)],
          out     |-> IF d.ota_state # Some(params.ota_state)
                      THEN <<Notification("ota_state", params.ota_state)>>
                      ELSE <<>>]
    ELSE [handled |-> FALSE, device |-> d, out |-> <<>>]

\* the branch of _handle_message a message takes, and what that branch
\* reports: a message with no method or no params takes none; event params
\* that name no siid or no eiid are not handed to _handle_mqtt_event
handle_branches(d, message) ==
    IF "method" \notin DOMAIN message \/ "params" \notin DOMAIN message
    THEN [handled |-> FALSE, device |-> d, out |-> <<>>]
    ELSE IF message.method = "properties_changed"
    THEN handle_params(d, message.params)
    ELSE IF message.method = "event_occured"
    THEN IF "siid" \in DOMAIN message.params /\ "eiid" \in DOMAIN message.params
         THEN handle_mqtt_event(d, message.params)
         ELSE [handled |-> FALSE, device |-> d, out |-> <<>>]
    ELSE IF message.method = "props"
    THEN handle_mqtt_props(d, message.params)
    ELSE [handled |-> FALSE, device |-> d, out |-> <<>>]

\* mutant: the raw message is also reported when a branch handled it
handle_message_always_reports(d, message) ==
    LET Result(r) ==
            [device |-> r.device,
             out    |-> Append(r.out, Notification("unhandled_mqtt", message))]
    IN  Result(handle_branches(d, message))

\* DreameMowerDevice._handle_message; the 'unhandled_mqtt' notification
\* carries the raw message
handle_message(d, message) ==
    LET Result(r) ==
            [device |-> r.device,
             out    |-> IF r.handled
                        THEN r.out
                        ELSE Append(r.out, Notification("unhandled_mqtt", message))]
    IN  Result(handle_branches(d, message))

\* whether a run of _handle_message ends with an exception that reaches its
\* caller. The three handlers run inside their own try blocks and answer
\* True or False; the statements of _handle_message that run outside any try
\* are the tests on the message and the final _notify_property_change
handle_message_raises(d, message) ==
    /\ ~handle_branches(d, message).handled
    /\ notify_property_change(d.property_callbacks,
                              Notification("unhandled_mqtt", message)).raised

\* DreameMowerDevice._update_device_state_from_info, for the keys ver, battery
\* and latestStatus with values of the expected types
update_device_state_from_info(d, device_info) ==
    LET d1 == IF "ver" \in DOMAIN device_info
              THEN [d EXCEPT !.firmware = device_info.ver] ELSE d
        d2 == IF "battery" \in DOMAIN device_info
              THEN [d1 EXCEPT !.battery_percent = device_info.battery] ELSE d1
        d3 == IF "latestStatus" \in DOMAIN device_info
              THEN [d2 EXCEPT !.status_code = device_info.latestStatus] ELSE d2
    IN  [device |-> d3,
         out    |-> (IF d1.firmware # d.firmware
                     THEN <<Notification("firmware", d1.firmware)>> ELSE <<>>)
                    \o (IF d2.battery_percent # d.battery_percent
                        THEN <<Notification("battery_percent", d2.battery_percent)>>
                        ELSE <<>>)
                    \o (IF d3.status_code # d.status_code
                        THEN <<Notification("status", d3.status_code)>> ELSE <<>>)]

(***************************************************************************)
(* Inputs                                                                   *)
(***************************************************************************)
\* (x, y, heading, segment) of the full frames
Poses == {<<100, 200, 45, 5>>, <<-150, 250, -90, 40000>>}

\* (total, current) in centi-sqm of the full frames
Areas == {<<0, 0>>, <<10000, 0>>, <<10000, 5000>>, <<10000, 9600>>, <<10000, 12000>>,
          <<0, 700>>}

FullFrames ==
    {FullFrame(p[1], p[2], p[3], p[4], a[1], a[2], 0) : p \in Poses, a \in Areas}

ShortFrames == {ShortFrame(100, 200, 50), ShortFrame(-7, 9, 0)}

\* wrong sentinel, interior length neither 6 nor 31, fewer than 8 bytes, and a
\* full-length frame holding a number that is no byte
BadFrames ==
    {[FullFrame(100, 200, 45, 5, 10000, 5000, 0) EXCEPT ![1] = 0],
     [ShortFrame(100, 200, 50) EXCEPT ![8] = 205],
     <<SENTINEL_BYTE>> \o LE16(1) \o LE16(2) \o LE16(3) \o <<0>> \o <<SENTINEL_BYTE>>,
     <<SENTINEL_BYTE, 1, 0, 2, 0, SENTINEL_BYTE>>,
     [FullFrame(-150, 250, 45, 5, 10000, 5000, 0) EXCEPT ![30] = 300]}

Frames == FullFrames \cup ShortFrames \cup BadFrames

\* event_occured params: firmware validation, mission completion, an unknown event
EventParams ==
    {[siid |-> 1, eiid |-> 1, arguments |-> <<>>],
     [siid |-> 4, eiid |-> 1, arguments |-> <<96>>],
     [siid |-> 4, eiid |-> 2, arguments |-> <<>>]}

\* status codes delivered on 2:1: mowing, charging complete
StatusValues == {1, 13}

Param(siid, piid, value) == [siid |-> siid, piid |-> piid, value |-> value]

PropertiesChanged(params) == [method |-> "properties_changed", params |-> params]

EventOccured(params) == [method |-> "event_occured", params |-> params]

Props(params) == [method |-> "props", params |-> params]

\* the event_occured messages of a set of params, one after another
RECURSIVE EventMessagesOf(_)
EventMessagesOf(params_set) ==
    IF params_set = {} THEN <<>>
    ELSE LET params == CHOOSE p \in params_set : TRUE
         IN  <<EventOccured(params)>> \o EventMessagesOf(params_set \ {params})

EventMessages == EventMessagesOf(EventParams)

\* 1:4 values: 96 of 100 sqm, 30 of 100 sqm, a frame with a wrong sentinel
Pose96 == ListValue(FullFrame(100, 200, 45, 5, 10000, 9600, 0))

Pose30 == ListValue(FullFrame(100, 200, 45, 5, 10000, 3000, 0))

PoseBad == ListValue([FullFrame(100, 200, 45, 5, 10000, 9600, 0) EXCEPT ![33] = 0])

\* props params: the known key, an unknown key, both
PropsParams ==
    {[ota_state |-> "idle"],
     [unknown_param |-> "some_value"],
     [ota_state |-> "idle", unknown_param |-> "some_value"]}

\* the props messages of a set of params, one after another
RECURSIVE PropsMessagesOf(_)
PropsMessagesOf(params_set) ==
    IF params_set = {} THEN <<>>
    ELSE LET params == CHOOSE p \in params_set : TRUE
         IN  <<Props(params)>> \o PropsMessagesOf(params_set \ {params})

PropsMessages == PropsMessagesOf(PropsParams)

\* properties_changed messages of the mission streams, in a list: battery, status, pose,
\* an unknown property (9:9), a non-numeric battery value, and two messages
\* of several entries
DispatchMessages ==
    <<PropertiesChanged(<<Param(3, 1, IntValue(50))>>),
     PropertiesChanged(<<Param(3, 1, StrValue("abc"))>>),
     PropertiesChanged(<<Param(2, 1, IntValue(1))>>),
     PropertiesChanged(<<Param(2, 1, IntValue(13))>>),
     PropertiesChanged(<<Param(1, 4, Pose96)>>),
     PropertiesChanged(<<Param(1, 4, Pose30)>>),
     PropertiesChanged(<<Param(1, 4, PoseBad)>>),
     PropertiesChanged(<<Param(9, 9, IntValue(1))>>),
     PropertiesChanged(<<Param(3, 1, IntValue(50)), Param(2, 1, IntValue(1))>>),
     PropertiesChanged(<<Param(9, 9, IntValue(1)), Param(3, 1, IntValue(80))>>)>>

\* responses of the devices_list endpoint
DeviceInfos ==
    {[battery |-> 80, latestStatus |-> 13],
     [latestStatus |-> 1],
     [ver |-> "1.0", battery |-> 50, latestStatus |-> 1]}

\* 2:50 values: a task, and tasks missing 'o', 'status', 'exe', 'd'
TaskValues ==
    <<DictValue([t |-> "TASK", d |-> [exe |-> TRUE, o |-> 4, status |-> TRUE]]),
      DictValue([t |-> "TASK", d |-> [exe |-> FALSE, status |-> TRUE]]),
      DictValue([t |-> "TASK", d |-> [exe |-> FALSE, o |-> 100]]),
      DictValue([t |-> "OTHER", d |-> [o |-> 100, status |-> TRUE]]),
      DictValue([t |-> "OTHER"])>>

\* 2:56 values: pause, an unknown status code, no command
MowerControlValues ==
    <<ControlStatus(1, 4), ControlStatus(1, 7), ControlStatusEmpty>>

\* messages of one entry for every property stream of the model, in a list
StreamMessages ==
    <<PropertiesChanged(<<Param(3, 1, IntValue(50))>>),
      PropertiesChanged(<<Param(2, 1, IntValue(13))>>),
      PropertiesChanged(<<Param(1, 2, IntValue(2))>>),
      PropertiesChanged(<<Param(1, 2, IntValue(99))>>),
      PropertiesChanged(<<Param(1, 3, IntValue(50))>>),
      PropertiesChanged(<<Param(1, 3, IntValue(101))>>),
      PropertiesChanged(<<Param(1, 4, Pose96)>>),
      PropertiesChanged(<<Param(1, 4, PoseBad)>>)>>
    \o [i \in 1..Len(TaskValues) |-> PropertiesChanged(<<Param(2, 50, TaskValues[i])>>)]
    \o [i \in 1..Len(MowerControlValues) |->
            PropertiesChanged(<<Param(2, 56, MowerControlValues[i])>>)]

(***************************************************************************)
(* State                                                                    *)
(***************************************************************************)
VARIABLES
    device,       \* the DreameMowerDevice aggregate with the handlers it owns
    dock_pc,      \* where the return_to_dock() coroutine stands
    clock,        \* seconds the current wait on the completion signal has lasted
    dock_trace,   \* what the current (or last) return_to_dock() call did, in order
    start_pc,     \* where the start_mowing() coroutine stands
    pause_pc,     \* where the pause() coroutine stands
    writers,      \* where the transport thread (mqtt) and the event loop (rest)
                  \* stand in an update of battery or status, with their locals
    emitted,      \* the notifications of the last step, in order
    called,       \* the callback invocations of the last step, in order
    last,         \* the last step taken and its input
    seen_nonzero, \* history: some decode produced a progress greater than 0
    marked_after_progress, \* history: mark_mission_completed() ran after such a
                           \* decode and reset_mission_completion() has not run since
    reset_pending \* history: reset_mission_completion() ran and no full-format
                  \* decode has succeeded since

\* the frame of a writer that is not running
FrameIdle == [pc |-> "idle", updates |-> <<>>, k |-> 0, old |-> 0]

vars == <<device, dock_pc, clock, dock_trace, start_pc, pause_pc, writers,
          emitted, called, last,
          seen_nonzero, marked_after_progress, reset_pending>>

seqVars == <<dock_pc, clock, dock_trace, start_pc, pause_pc, writers>>

histVars == <<seen_nonzero, marked_after_progress, reset_pending>>

Init ==
    /\ device = DeviceInit
    /\ dock_pc = "idle"
    /\ clock = 0
    /\ dock_trace = <<>>
    /\ start_pc = "idle"
    /\ pause_pc = "idle"
    /\ writers = [mqtt |-> FrameIdle, rest |-> FrameIdle]
    /\ emitted = <<>>
    /\ called = <<>>
    /\ last = [op |-> "init"]
    /\ seen_nonzero = FALSE
    /\ marked_after_progress = FALSE
    /\ reset_pending = FALSE

Handler == device.pose_coverage_handler

\* the notifications of a step go, one after the other, through
\* _notify_property_change to the callbacks registered when the step is taken
Emit(out) ==
    /\ emitted' = out
    /\ called' = notify_all(device.property_callbacks, out)

\* a value whose interior (between the two sentinels) has the full length
IsFullFrame(value) == Len(value) = FULL_PAYLOAD_LENGTH + 2

IsShortFrame(value) == Len(value) = SHORT_PAYLOAD_LENGTH + 2

ProgressPositive(h) == h.progress_percent # None /\ RatPos(Val(h.progress_percent))

\* the history variables after a step that left the handler as g; decoded:
\* the step was a successful full-format decode, marked/reset: the step called
\* mark_mission_completed() / reset_mission_completion()
History(g, decoded, marked, reset) ==
    /\ seen_nonzero' = (seen_nonzero \/ (decoded /\ ProgressPositive(g)))
    /\ marked_after_progress' =
          IF reset THEN FALSE
          ELSE IF marked THEN (marked_after_progress \/ seen_nonzero)
          ELSE marked_after_progress
    /\ reset_pending' =
          IF decoded THEN FALSE ELSE IF reset THEN TRUE ELSE reset_pending

(***************************************************************************)
(* The handler driven directly, as the handler's unit tests drive it        *)
(***************************************************************************)
ParseValue(value) ==
    \E r \in {parse_value(Handler, value)} :
        /\ device' = [device EXCEPT !.pose_coverage_handler = r.h]
        /\ last' = [op |-> "parse_value", arg |-> value, ok |-> r.ok]
        /\ History(r.h, r.ok /\ IsFullFrame(value), FALSE, FALSE)
        /\ UNCHANGED <<seqVars, emitted, called>>

MarkMissionCompleted ==
    /\ device' = [device EXCEPT !.pose_coverage_handler = mark_mission_completed(@)]
    /\ last' = [op |-> "mark_mission_completed"]
    /\ History(Handler, FALSE, TRUE, FALSE)
    /\ UNCHANGED <<seqVars, emitted, called>>

ResetMissionCompletion ==
    /\ device' = [device EXCEPT !.pose_coverage_handler = reset_mission_completion(@)]
    /\ last' = [op |-> "reset_mission_completion"]
    /\ History(Handler, FALSE, FALSE, TRUE)
    /\ UNCHANGED <<seqVars, emitted, called>>

ClearPathHistory ==
    /\ device' = [device EXCEPT !.pose_coverage_handler = clear_path_history(@)]
    /\ last' = [op |-> "clear_path_history"]
    /\ UNCHANGED <<seqVars, emitted, called, histVars>>

NextPose ==
    \/ \E value \in Frames : ParseValue(value)
    \/ MarkMissionCompleted
    \/ ResetMissionCompletion
    \/ ClearPathHistory

SpecPose == Init /\ [][NextPose]_vars

(***************************************************************************)
(* Full frames at the edges of the 16-bit ranges, with different bytes at   *)
(* the offsets no field is read from                                        *)
(***************************************************************************)
\* (x, y, heading, segment, total, current) of the frames: the values of the
\* handler test, negative coordinates with a segment beyond 32767, the
\* largest positive and the smallest negative int16, -1, and the largest uint16
DecodeFields ==
    {<<100, 200, 45, 5, 10000, 5000>>,
     <<-150, 250, -90, 40000, 0, 700>>,
     <<32767, -32768, -1, 65535, 65535, 65535>>,
     <<-1, 32767, -32768, 32768, 1, 32768>>}

\* the byte at every offset outside the six fields
DecodePads == {0, 255}

DecodeFrames ==
    {FullFrame(f[1], f[2], f[3], f[4], f[5], f[6], pad) :
        f \in DecodeFields, pad \in DecodePads}

NextDecode == \E value \in DecodeFrames : ParseValue(value)

SpecDecode == Init /\ [][NextDecode]_vars

(***************************************************************************)
(* Inbound messages, dispatched by DreameMowerDevice._handle_message.       *)
(* A handler runs to its end before the event loop takes its next step.     *)
(***************************************************************************)
Signal == device.mission_completed_event

IsCompletionEvent(message) ==
    /\ "method" \in DOMAIN message /\ "params" \in DOMAIN message
    /\ message.method = "event_occured"
    /\ "siid" \in DOMAIN message.params /\ "eiid" \in DOMAIN message.params
    /\ message.params.siid = 4 /\ message.params.eiid = 1

\* mutant: no message is dispatched while return_to_dock() is running
Deliver_BlockedByDock(message, marked, reset) ==
    /\ dock_pc = "idle"
    /\ \E r \in {handle_message(device, message)} :
        /\ device' = r.device
        /\ Emit(r.out)
        /\ last' = [op |-> "message", arg |-> message]
        /\ History(r.device.pose_coverage_handler, FALSE, marked, reset)
        /\ UNCHANGED seqVars

Deliver(message, marked, reset) ==
    \E r \in {handle_message(device, message)} :
        /\ device' = r.device
        /\ Emit(r.out)
        /\ last' = [op |-> "message", arg |-> message]
        /\ History(r.device.pose_coverage_handler, FALSE, marked, reset)
        /\ UNCHANGED seqVars

DeliverEvent(params) ==
    Deliver([method |-> "event_occured", params |-> params],
            params.siid = 4 /\ params.eiid = 1, FALSE)

DeliverStatus(value) ==
    Deliver([method |-> "properties_changed",
             params |-> <<[siid |-> 2, piid |-> 1, value |-> IntValue(value)]>>],
            FALSE, value = 1 /\ device.status_code # 1)

\* the index of the entry at which the loop of _handle_message returned, 0
\* when no entry was handled
RECURSIVE handled_index(_, _, _)
handled_index(d, params_list, i) ==
    IF i > Len(params_list) THEN 0
    ELSE IF ~IsPropertyEntry(params_list[i])
    THEN handled_index(d, params_list, i + 1)
    ELSE LET Result(r) ==
                 IF r.handled THEN i ELSE handled_index(r.device, params_list, i + 1)
         IN  Result(handle_mqtt_property_update(d, params_list[i]))

\* a message of the model's input sets is dispatched
DeliverMessage(message) ==
    \E r \in {handle_message(device, message)},
       i \in {IF /\ "method" \in DOMAIN message /\ "params" \in DOMAIN message
                 /\ message.method = "properties_changed"
              THEN handled_index(device, message.params, 1) ELSE 0} :
        /\ device' = r.device
        /\ Emit(r.out)
        /\ last' = [op |-> "message", arg |-> message]
        /\ History(r.device.pose_coverage_handler,
                   i > 0 /\ Matches(POSE_COVERAGE_PROPERTY,
                                    message.params[i].siid, message.params[i].piid)
                         /\ IsFullFrame(message.params[i].value.v),
                   IsCompletionEvent(message),
                   i > 0 /\ Matches(STATUS_PROPERTY,
                                    message.params[i].siid, message.params[i].piid)
                         /\ message.params[i].value.v = STATUS_MOWING
                         /\ device.status_code # STATUS_MOWING)
        /\ UNCHANGED seqVars

\* fetch_device_info() got a response and _update_device_state_from_info ran
UpdateDeviceStateFromInfo(device_info) ==
    LET r == update_device_state_from_info(device, device_info)
    IN  /\ device' = r.device
        /\ Emit(r.out)
        /\ last' = [op |-> "device_info", arg |-> device_info]
        /\ UNCHANGED <<seqVars, histVars>>

(***************************************************************************)
(* Commands. Each await of a coroutine ends one step: the executor runs the *)
(* send and the coroutine resumes with the transport's answer.              *)
(***************************************************************************)
\* mutant: the signal of an earlier mission is not cleared
ReturnToDockCall_NoClear ==
    /\ dock_pc = "idle"
    /\ dock_trace' = <<"send_stop">>
    /\ dock_pc' = "stopping"
    /\ clock' = 0
    /\ Emit(<<>>)
    /\ last' = [op |-> "return_to_dock"]
    /\ UNCHANGED <<device, start_pc, pause_pc, writers, histVars>>

\* return_to_dock(), up to the await of the STOP send
ReturnToDockCall ==
    /\ dock_pc = "idle"
    /\ device' = [device EXCEPT !.mission_completed_event = EventClear(@)]
    /\ dock_trace' = <<"clear", "send_stop">>
    /\ dock_pc' = "stopping"
    /\ clock' = 0
    /\ Emit(<<>>)
    /\ last' = [op |-> "return_to_dock"]
    /\ UNCHANGED <<start_pc, pause_pc, writers, histVars>>

\* mutant: the answer of the STOP send is not looked at
StopResult_IgnoreFailure(ok) ==
    /\ dock_pc = "stopping"
    /\ last' = [op |-> "stop_result", ok |-> ok]
    /\ Emit(<<Notification("activity", "stopping")>>)
    /\ device' = [device EXCEPT !.mission_completed_event = EventWait(@)]
    /\ dock_trace' = dock_trace \o
           <<IF ok THEN "stop_ok" ELSE "stop_failed", "notify_stopping",
             IF Signal.value THEN "wait_already_set" ELSE "wait">>
    /\ dock_pc' = "waiting"
    /\ UNCHANGED <<clock, start_pc, pause_pc, writers, histVars>>

\* the STOP send answered: return False, or notify and enter the wait
StopResult(ok) ==
    /\ dock_pc = "stopping"
    /\ last' = [op |-> "stop_result", ok |-> ok]
    /\ IF ok
       THEN /\ Emit(<<Notification("activity", "stopping")>>)
            /\ device' = [device EXCEPT !.mission_completed_event = EventWait(@)]
            /\ dock_trace' = dock_trace \o
                   <<"stop_ok", "notify_stopping",
                     IF Signal.value THEN "wait_already_set" ELSE "wait">>
            /\ dock_pc' = "waiting"
       ELSE /\ Emit(<<>>)
            /\ device' = device
            /\ dock_trace' = dock_trace \o <<"stop_failed", "return_false">>
            /\ dock_pc' = "idle"
    /\ UNCHANGED <<clock, start_pc, pause_pc, writers, histVars>>

\* a second passes while the coroutine is suspended in wait_for; the loop
\* resumes a woken coroutine before more time passes
Tick ==
    /\ dock_pc = "waiting"
    /\ Signal.waiter = "pending"
    /\ clock < WAIT_TIMEOUT
    /\ clock' = clock + 1
    /\ Emit(<<>>)
    /\ last' = [op |-> "tick"]
    /\ UNCHANGED <<device, dock_pc, dock_trace, start_pc, pause_pc, writers, histVars>>

\* mutant: the signal is cleared again when the wait returns
WaitSignalled_AutoReset ==
    /\ dock_pc = "waiting"
    /\ Signal.waiter = "done"
    /\ device' = [device EXCEPT
                     !.mission_completed_event = EventClear(EventLeave(@))]
    /\ dock_trace' = dock_trace \o <<"signalled", "send_dock">>
    /\ dock_pc' = "docking"
    /\ clock' = 0
    /\ Emit(<<>>)
    /\ last' = [op |-> "wait_signalled"]
    /\ UNCHANGED <<start_pc, pause_pc, writers, histVars>>

\* wait_for returned: the signal was set; the DOCK send is awaited
WaitSignalled ==
    /\ dock_pc = "waiting"
    /\ Signal.waiter = "done"
    /\ device' = [device EXCEPT !.mission_completed_event = EventLeave(@)]
    /\ dock_trace' = dock_trace \o <<"signalled", "send_dock">>
    /\ dock_pc' = "docking"
    /\ clock' = 0
    /\ Emit(<<>>)
    /\ last' = [op |-> "wait_signalled"]
    /\ UNCHANGED <<start_pc, pause_pc, writers, histVars>>

\* mutant: the TimeoutError is taken as a failure of the call
WaitTimeout_Abort ==
    /\ dock_pc = "waiting"
    /\ Signal.waiter = "pending"
    /\ clock = WAIT_TIMEOUT
    /\ device' = [device EXCEPT !.mission_completed_event = EventLeave(@)]
    /\ dock_trace' = dock_trace \o <<"timeout", "return_false">>
    /\ dock_pc' = "idle"
    /\ clock' = 0
    /\ Emit(<<>>)
    /\ last' = [op |-> "wait_timeout"]
    /\ UNCHANGED <<start_pc, pause_pc, writers, histVars>>

\* mutant: at the timeout the wait is entered again
WaitTimeout_Rearm ==
    /\ dock_pc = "waiting"
    /\ Signal.waiter = "pending"
    /\ clock = WAIT_TIMEOUT
    /\ dock_trace' = dock_trace
    /\ dock_pc' = "waiting"
    /\ clock' = 0
    /\ Emit(<<>>)
    /\ last' = [op |-> "wait_timeout"]
    /\ UNCHANGED <<device, start_pc, pause_pc, writers, histVars>>

\* wait_for raised TimeoutError, which is caught; the DOCK send is awaited
WaitTimeout ==
    /\ dock_pc = "waiting"
    /\ Signal.waiter = "pending"
    /\ clock = WAIT_TIMEOUT
    /\ device' = [device EXCEPT !.mission_completed_event = EventLeave(@)]
    /\ dock_trace' = dock_trace \o <<"timeout", "send_dock">>
    /\ dock_pc' = "docking"
    /\ clock' = 0
    /\ Emit(<<>>)
    /\ last' = [op |-> "wait_timeout"]
    /\ UNCHANGED <<start_pc, pause_pc, writers, histVars>>

\* mutant: a DOCK send that failed is sent again
DockResult_Retry(ok) ==
    /\ dock_pc = "docking"
    /\ last' = [op |-> "dock_result", ok |-> ok]
    /\ IF ok
       THEN /\ Emit(<<Notification("activity", "docked")>>)
            /\ dock_trace' = dock_trace \o <<"dock_ok", "notify_docked", "return_true">>
            /\ dock_pc' = "idle"
       ELSE /\ Emit(<<>>)
            /\ dock_trace' = dock_trace \o <<"dock_failed", "send_dock">>
            /\ dock_pc' = "docking"
    /\ UNCHANGED <<device, clock, start_pc, pause_pc, writers, histVars>>

\* the DOCK send answered: return False, or notify and return True
DockResult(ok) ==
    /\ dock_pc = "docking"
    /\ last' = [op |-> "dock_result", ok |-> ok]
    /\ IF ok
       THEN /\ Emit(<<Notification("activity", "docked")>>)
            /\ dock_trace' = dock_trace \o <<"dock_ok", "notify_docked", "return_true">>
       ELSE /\ Emit(<<>>)
            /\ dock_trace' = dock_trace \o <<"dock_failed", "return_false">>
    /\ dock_pc' = "idle"
    /\ UNCHANGED <<device, clock, start_pc, pause_pc, writers, histVars>>

\* start_mowing(), up to the await of the START send
StartMowingCall ==
    /\ start_pc = "idle"
    /\ start_pc' = "sending"
    /\ Emit(<<>>)
    /\ last' = [op |-> "start_mowing"]
    /\ UNCHANGED <<device, dock_pc, clock, dock_trace, pause_pc, writers, histVars>>

\* mutant: the mission completion flag is not reset
StartMowingResult_NoReset(ok) ==
    /\ start_pc = "sending"
    /\ start_pc' = "idle"
    /\ last' = [op |-> "start_mowing_result", ok |-> ok, returned |-> ok]
    /\ device' = device
    /\ Emit(IF ok THEN <<Notification("activity", "mowing")>> ELSE <<>>)
    /\ UNCHANGED histVars
    /\ UNCHANGED <<dock_pc, clock, dock_trace, pause_pc, writers>>

\* the START send answered: return False, or reset the mission completion
\* flag, notify and return True
StartMowingResult(ok) ==
    /\ start_pc = "sending"
    /\ start_pc' = "idle"
    /\ last' = [op |-> "start_mowing_result", ok |-> ok, returned |-> ok]
    /\ IF ok
       THEN /\ device' = [device EXCEPT
                             !.pose_coverage_handler = reset_mission_completion(@)]
            /\ Emit(<<Notification("activity", "mowing")>>)
            /\ History(Handler, FALSE, FALSE, TRUE)
       ELSE /\ device' = device
            /\ Emit(<<>>)
            /\ UNCHANGED histVars
    /\ UNCHANGED <<dock_pc, clock, dock_trace, pause_pc, writers>>

\* pause(), up to the await of the PAUSE send
PauseCall ==
    /\ pause_pc = "idle"
    /\ pause_pc' = "sending"
    /\ Emit(<<>>)
    /\ last' = [op |-> "pause"]
    /\ UNCHANGED <<device, dock_pc, clock, dock_trace, start_pc, writers, histVars>>

\* mutant: 'paused' is notified whatever the PAUSE send answered
PauseResult_NotifyAlways(ok) ==
    /\ pause_pc = "sending"
    /\ pause_pc' = "idle"
    /\ last' = [op |-> "pause_result", ok |-> ok, returned |-> ok]
    /\ Emit(<<Notification("activity", "paused")>>)
    /\ UNCHANGED <<device, dock_pc, clock, dock_trace, start_pc, writers, histVars>>

\* the PAUSE send answered: return False, or notify and return True
PauseResult(ok) ==
    /\ pause_pc = "sending"
    /\ pause_pc' = "idle"
    /\ last' = [op |-> "pause_result", ok |-> ok, returned |-> ok]
    /\ Emit(IF ok THEN <<Notification("activity", "paused")>> ELSE <<>>)
    /\ UNCHANGED <<device, dock_pc, clock, dock_trace, start_pc, writers, histVars>>

Next ==
    \/ \E params \in EventParams : DeliverEvent(params)
    \/ \E value \in StatusValues : DeliverStatus(value)
    \/ ReturnToDockCall
    \/ \E ok \in BOOLEAN : StopResult(ok)
    \/ Tick
    \/ WaitSignalled
    \/ WaitTimeout
    \/ \E ok \in BOOLEAN : DockResult(ok)
    \/ StartMowingCall
    \/ \E ok \in BOOLEAN : StartMowingResult(ok)
    \/ PauseCall
    \/ \E ok \in BOOLEAN : PauseResult(ok)

Spec == Init /\ [][Next]_vars

\* what keeps a return_to_dock() call going: the executor answers each send,
\* the loop's clock advances while the coroutine is suspended in wait_for, and
\* the loop resumes the coroutine when the event is set or the timeout is due
DockFairness ==
    /\ WF_vars(\E ok \in BOOLEAN : StopResult(ok))
    /\ WF_vars(Tick)
    /\ WF_vars(WaitSignalled)
    /\ WF_vars(WaitTimeout)
    /\ WF_vars(\E ok \in BOOLEAN : DockResult(ok))

SpecDockLive == Init /\ [][Next]_vars /\ DockFairness

(***************************************************************************)
(* The dispatcher with the streams a mission touches, the device-info       *)
(* refresh and start_mowing()                                               *)
(***************************************************************************)
NextDispatch ==
    \/ \E i \in 1..Len(DispatchMessages) : DeliverMessage(DispatchMessages[i])
    \/ \E i \in 1..Len(EventMessages) : DeliverMessage(EventMessages[i])
    \/ \E i \in 1..Len(PropsMessages) : DeliverMessage(PropsMessages[i])
    \/ \E device_info \in DeviceInfos : UpdateDeviceStateFromInfo(device_info)
    \/ StartMowingCall
    \/ \E ok \in BOOLEAN : StartMowingResult(ok)

SpecDispatch == Init /\ [][NextDispatch]_vars

(***************************************************************************)
(* The dispatcher with one-entry messages of every property stream          *)
(***************************************************************************)
NextStreams == \E i \in 1..Len(StreamMessages) : DeliverMessage(StreamMessages[i])

SpecStreams == Init /\ [][NextStreams]_vars

(***************************************************************************)
(* Subscribers: callbacks are registered, then messages are dispatched      *)
(***************************************************************************)
\* the most callbacks registered
MaxCallbacks == 3

\* the callbacks of the model: the second one raises whenever it is called
Callbacks == {Callback(1, FALSE), Callback(2, TRUE), Callback(3, FALSE)}

\* messages that notify once, three times (mower control) and as unhandled
NotifyMessages ==
    <<PropertiesChanged(<<Param(3, 1, IntValue(50))>>),
      PropertiesChanged(<<Param(3, 1, IntValue(80))>>),
      PropertiesChanged(<<Param(2, 56, ControlStatus(1, 4))>>),
      PropertiesChanged(<<Param(2, 56, ControlStatus(1, 0))>>),
      PropertiesChanged(<<Param(9, 9, IntValue(1))>>)>>

\* DreameMowerDevice.register_property_callback
RegisterPropertyCallback(callback) ==
    /\ Len(device.property_callbacks) < MaxCallbacks
    /\ device' = [device EXCEPT !.property_callbacks = Append(@, callback)]
    /\ emitted' = <<>>
    /\ called' = <<>>
    /\ last' = [op |-> "register_property_callback", arg |-> callback]
    /\ UNCHANGED <<seqVars, histVars>>

NextNotify ==
    \/ \E callback \in Callbacks : RegisterPropertyCallback(callback)
    \/ \E i \in 1..Len(NotifyMessages) : DeliverMessage(NotifyMessages[i])

(***************************************************************************)
(* Device codes: 2:2 messages among battery and status messages             *)
(***************************************************************************)
\* an information code, a warning, an error, a value that is no code, and
\* messages of two other streams
DeviceCodeMessages ==
    <<PropertiesChanged(<<Param(2, 2, IntValue(0))>>),
      PropertiesChanged(<<Param(2, 2, IntValue(1))>>),
      PropertiesChanged(<<Param(2, 2, IntValue(2))>>),
      PropertiesChanged(<<Param(2, 2, StrValue("abc"))>>),
      PropertiesChanged(<<Param(3, 1, IntValue(50))>>),
      PropertiesChanged(<<Param(3, 1, IntValue(80))>>),
      PropertiesChanged(<<Param(2, 1, IntValue(13))>>),
      PropertiesChanged(<<Param(2, 1, IntValue(1))>>)>>

NextDeviceCode ==
    \E i \in 1..Len(DeviceCodeMessages) : DeliverMessage(DeviceCodeMessages[i])

SpecDeviceCode == Init /\ [][NextDeviceCode]_vars

SpecNotify == Init /\ [][NextNotify]_vars

(***************************************************************************)
(* Message shapes: what the dispatcher does with messages of every shape,   *)
(* with callbacks registered                                                *)
(***************************************************************************)
\* messages no branch handles: a method the dispatcher does not know, a
\* message without params, a message without method, an empty params array,
\* an entry without piid, a property and an event nobody handles, event
\* params without eiid, props without a known key; messages whose decode
\* fails: a battery that is no number, a battery entry without value, a pose
\* frame with a wrong sentinel; and messages that are handled: a battery
\* behind an entry without piid, a battery, a full pose frame, the mission
\* completion event and an OTA state
ShapeMessages ==
    <<[method |-> "set_properties", params |-> <<>>],
      [method |-> "properties_changed", id |-> 7],
      [id |-> 7, params |-> <<>>],
      PropertiesChanged(<<>>),
      PropertiesChanged(<<[siid |-> 3, value |-> IntValue(50)]>>),
      PropertiesChanged(<<Param(9, 9, IntValue(1))>>),
      EventOccured([siid |-> 4, eiid |-> 2, arguments |-> <<>>]),
      EventOccured([siid |-> 4, arguments |-> <<96>>]),
      Props([unknown_param |-> "some_value"]),
      PropertiesChanged(<<Param(3, 1, StrValue("n/a"))>>),
      PropertiesChanged(<<[siid |-> 3, piid |-> 1]>>),
      PropertiesChanged(<<Param(1, 4, PoseBad)>>),
      PropertiesChanged(<<[siid |-> 3, value |-> IntValue(50)],
                          Param(3, 1, IntValue(80))>>),
      PropertiesChanged(<<Param(3, 1, IntValue(50))>>),
      PropertiesChanged(<<Param(1, 4, Pose96)>>),
      EventOccured([siid |-> 4, eiid |-> 1, arguments |-> <<96>>]),
      Props([ota_state |-> "idle"])>>

NextShapes ==
    \/ \E callback \in Callbacks : RegisterPropertyCallback(callback)
    \/ \E i \in 1..Len(ShapeMessages) : DeliverMessage(ShapeMessages[i])

SpecShapes == Init /\ [][NextShapes]_vars

(***************************************************************************)
(* The mower control decoder driven directly, as its unit tests drive it    *)
(***************************************************************************)
\* the first elements and the status codes of the well-shaped values
ControlIds == {0, 1, 3}

ControlCodes == {0, 2, 4, 7, 99}

\* the values {'status': [[id, code]]} of a set of <<id, code>> pairs, one
\* after another
RECURSIVE ControlStatusOf(_)
ControlStatusOf(pairs) ==
    IF pairs = {} THEN <<>>
    ELSE LET pair == CHOOSE p \in pairs : TRUE
         IN  <<ControlStatus(pair[1], pair[2])>> \o ControlStatusOf(pairs \ {pair})

ControlStatusValues == ControlStatusOf(ControlIds \X ControlCodes)

\* values of a wrong shape: no dict, no 'status', a 'status' that is no list,
\* a first entry that is no list, a short first entry, a code that is no number
MalformedControlValues ==
    <<StrValue("status"),
      DictValue([other_field |-> StrValue("value")]),
      DictValue([status |-> StrValue("not_a_list")]),
      DictValue([status |-> ListValue(<<StrValue("entry")>>)]),
      DictValue([status |-> ListValue(<<ListValue(<<IntValue(1)>>)>>)]),
      DictValue([status |-> ListValue(<<ListValue(<<StrValue("invalid"),
                                                    StrValue("format")>>)>>)])>>

ControlStatusHandler == device.mower_control_handler.status_handler

\* self.handler.parse_value(value)
ParseControlStatus(value) ==
    \E r \in {MowerControlStatusHandler_parse_value(ControlStatusHandler, value)} :
        /\ device' = [device EXCEPT !.mower_control_handler.status_handler = r.h]
        /\ last' = [op |-> "mower_control_parse", arg |-> value, ok |-> r.ok]
        /\ emitted' = <<>>
        /\ called' = <<>>
        /\ UNCHANGED <<seqVars, histVars>>

NextControl ==
    \/ \E i \in 1..Len(ControlStatusValues) :
            ParseControlStatus(ControlStatusValues[i])
    \/ ParseControlStatus(ControlStatusEmpty)
    \/ \E i \in 1..Len(MalformedControlValues) :
            ParseControlStatus(MalformedControlValues[i])

SpecControl == Init /\ [][NextControl]_vars

(***************************************************************************)
(* The task decoder driven directly, as the handler tests drive it          *)
(***************************************************************************)
\* the fields of 'd' the decoder requires and the ones it takes when present
RequiredTaskKeys == {"exe", "o", "status"}
OptionalTaskKeys == {"area_id", "region_id", "time"}

\* the sets of required keys a message carries: all, or all but one
RequiredTaskKeySets ==
    {RequiredTaskKeys} \cup {RequiredTaskKeys \ {k} : k \in RequiredTaskKeys}

\* two sets of field values, as in the handler tests:
\* {'area_id': [1, 2], 'exe': True, 'o': 75, 'region_id': [1], 'status': True,
\*  'time': 1500} and {'area_id': [], 'exe': False, 'o': 80,
\*  'region_id': [2, 3], 'status': False, 'time': 0}
TaskVariants == {1, 2}

TaskField(key, variant) ==
    IF key = "exe" THEN variant = 1
    ELSE IF key = "o" THEN (IF variant = 1 THEN 75 ELSE 80)
    ELSE IF key = "status" THEN variant = 1
    ELSE IF key = "area_id" THEN (IF variant = 1 THEN <<1, 2>> ELSE <<>>)
    ELSE IF key = "region_id" THEN (IF variant = 1 THEN <<1>> ELSE <<2, 3>>)
    ELSE (IF variant = 1 THEN 1500 ELSE 0)

\* the dict 'd' with the given keys (never empty)
RECURSIVE TaskData(_, _)
TaskData(keys, variant) ==
    LET key == CHOOSE k \in keys : TRUE
    IN  IF keys = {key} THEN key :> TaskField(key, variant)
        ELSE (key :> TaskField(key, variant)) @@ TaskData(keys \ {key}, variant)

\* {'t': 'TASK', 'd': {...}} with the given keys in 'd'
TaskValue(keys, variant) ==
    DictValue([t |-> "TASK", d |-> TaskData(keys, variant)])

\* the same without 't', and {'t': 'TASK'} without 'd'
TaskValueNoType(keys, variant) ==
    DictValue([d |-> TaskData(keys, variant)])

TaskValueNoData == DictValue([t |-> "TASK"])

\* the values of a set of <<keys, variant, with 't'>> shapes, one after another
RECURSIVE TaskValuesOf(_)
TaskValuesOf(shapes) ==
    IF shapes = {} THEN <<>>
    ELSE LET shape == CHOOSE s \in shapes : TRUE
         IN  <<IF shape[3] THEN TaskValue(shape[1], shape[2])
               ELSE TaskValueNoType(shape[1], shape[2])>>
             \o TaskValuesOf(shapes \ {shape})

\* the values the decoder is given: every choice of optional keys with all
\* required keys or all but one, the complete ones again without 't', a value
\* without 'd', and one that is no dict
TaskInputs ==
    TaskValuesOf({<<req \cup opt, variant, TRUE>> :
                    req \in RequiredTaskKeySets, opt \in SUBSET OptionalTaskKeys,
                    variant \in TaskVariants})
    \o TaskValuesOf({<<RequiredTaskKeys \cup opt, variant, FALSE>> :
                    opt \in SUBSET OptionalTaskKeys, variant \in TaskVariants})
    \o <<TaskValueNoData, StrValue("invalid string")>>

TaskHandlerState == device.scheduling_handler.task_handler

\* self.handler.parse_value(task_data)
ParseTask(value) ==
    \E r \in {TaskHandler_parse_value(TaskHandlerState, value)} :
        /\ device' = [device EXCEPT !.scheduling_handler.task_handler = r.h]
        /\ last' = [op |-> "task_parse", arg |-> value, ok |-> r.ok]
        /\ emitted' = <<>>
        /\ called' = <<>>
        /\ UNCHANGED <<seqVars, histVars>>

NextTask == \E i \in 1..Len(TaskInputs) : ParseTask(TaskInputs[i])

SpecTask == Init /\ [][NextTask]_vars

(***************************************************************************)
(* A mission from outside: status, pose and event messages among the three  *)
(* commands                                                                 *)
(***************************************************************************)
\* status 1 (mowing) and 13 (charging complete), a full and a short pose
\* frame, and the mission-completion event
MissionMessages ==
    <<PropertiesChanged(<<Param(2, 1, IntValue(1))>>),
      PropertiesChanged(<<Param(2, 1, IntValue(13))>>),
      PropertiesChanged(<<Param(1, 4, Pose96)>>),
      PropertiesChanged(<<Param(1, 4, ListValue(ShortFrame(-7, 9, 0)))>>),
      EventOccured([siid |-> 4, eiid |-> 1, arguments |-> <<96>>])>>

\* a device-info response that reports the status 1
MissionDeviceInfos == {[latestStatus |-> 1]}

NextMission ==
    \/ \E i \in 1..Len(MissionMessages) : DeliverMessage(MissionMessages[i])
    \/ \E device_info \in MissionDeviceInfos : UpdateDeviceStateFromInfo(device_info)
    \/ ReturnToDockCall
    \/ \E ok \in BOOLEAN : StopResult(ok)
    \/ Tick
    \/ WaitSignalled
    \/ WaitTimeout
    \/ \E ok \in BOOLEAN : DockResult(ok)
    \/ StartMowingCall
    \/ \E ok \in BOOLEAN : StartMowingResult(ok)
    \/ PauseCall
    \/ \E ok \in BOOLEAN : PauseResult(ok)

SpecMission == Init /\ [][NextMission]_vars

(***************************************************************************)
(* One device session over several missions: the pose handler is created    *)
(* once, in __init__, and serves every mission of the session               *)
(***************************************************************************)
\* the status goes to mowing and to charging complete, two full frames at
\* different positions, a short frame, and the mission completion event
SessionMessages ==
    <<PropertiesChanged(<<Param(2, 1, IntValue(1))>>),
      PropertiesChanged(<<Param(2, 1, IntValue(13))>>),
      PropertiesChanged(<<Param(1, 4, Pose96)>>),
      PropertiesChanged(<<Param(1, 4, ListValue(FullFrame(-150, 250, -90, 40000,
                                                          10000, 3000, 0)))>>),
      PropertiesChanged(<<Param(1, 4, ListValue(ShortFrame(-7, 9, 0)))>>),
      EventOccured([siid |-> 4, eiid |-> 1, arguments |-> <<96>>])>>

NextSession ==
    \/ \E i \in 1..Len(SessionMessages) : DeliverMessage(SessionMessages[i])
    \/ StartMowingCall
    \/ \E ok \in BOOLEAN : StartMowingResult(ok)
    \/ MarkMissionCompleted
    \/ ResetMissionCompletion
    \/ ClearPathHistory

SpecSession == Init /\ [][NextSession]_vars

(***************************************************************************)
(* The scheduling handler driven directly, as its tests drive it            *)
(***************************************************************************)
\* <<siid, piid, value>> of the updates: settings echoes (2:51) and summaries
\* (2:52) that are dicts, empty dicts and no dicts, two task descriptors
\* (2:50), and the battery property, which is no scheduling property
SchedulingUpdates ==
    << <<2, 51, DictValue([start |-> 855, end |-> 858, value |-> 1])>>,
       <<2, 51, DictValue([time |-> "1757011214", tz |-> "Europe/Rome"])>>,
       <<2, 51, DictValue(EmptyDict)>>,
       <<2, 51, IntValue(12345)>>,
       <<2, 51, StrValue("invalid string")>>,
       <<2, 51, ListValue(<<15, 95>>)>>,
       <<2, 52, DictValue(EmptyDict)>>,
       <<2, 52, DictValue([area |-> 96, time |-> 2323])>>,
       <<2, 52, StrValue("not a dict")>>,
       <<2, 52, IntValue(0)>>,
       <<2, 52, ListValue(<<>>)>>,
       <<2, 50, DictValue([t |-> "TASK", d |-> [exe |-> TRUE, o |-> 100, status |-> TRUE]])>>,
       <<2, 50, DictValue([t |-> "TASK", d |-> [exe |-> FALSE, o |-> 80]])>>,
       <<2, 50, StrValue("invalid json")>>,
       <<3, 1, IntValue(85)>> >>

\* self.handler.handle_property_update(siid, piid, value, self.notify_callback)
HandlePropertyUpdate(update) ==
    \E r \in {SchedulingPropertyHandler_handle_property_update(
                  device.scheduling_handler, update[1], update[2], update[3])} :
        /\ device' = [device EXCEPT !.scheduling_handler = r.h]
        /\ last' = [op |-> "scheduling_update", arg |-> update, ok |-> r.ok]
        /\ emitted' = r.out
        /\ called' = <<>>
        /\ UNCHANGED <<seqVars, histVars>>

NextScheduling ==
    \E i \in 1..Len(SchedulingUpdates) : HandlePropertyUpdate(SchedulingUpdates[i])

SpecScheduling == Init /\ [][NextScheduling]_vars

(***************************************************************************)
(* The two writers of battery and status, statement by statement: the       *)
(* transport thread runs _handle_message, the event loop runs               *)
(* _update_device_state_from_info, and neither takes a lock.                *)
(***************************************************************************)
Writers == {"mqtt", "rest"}

\* the updates one properties_changed entry carries: <<field, value>>
MqttUpdates ==
    << <<"battery_percent", 50>>, <<"battery_percent", 80>>,
       <<"status_code", 1>>, <<"status_code", 13>> >>

\* the updates one device-info response carries, in the order the code
\* takes them: battery, then latestStatus
RestUpdates ==
    << << <<"battery_percent", 50>> >>,
       << <<"battery_percent", 80>>, <<"status_code", 13>> >>,
       << <<"status_code", 1>> >> >>

\* the name a field is notified under
PropertyName(field) == IF field = "status_code" THEN "status" ELSE field

\* the update a running writer is at
Field(w) == writers[w].updates[writers[w].k][1]

NewValue(w) == writers[w].updates[writers[w].k][2]

\* old_x = self._x: the writer starts and reads the stored value
WriterBegin(w, updates) ==
    /\ writers[w].pc = "idle"
    /\ writers' = [writers EXCEPT ![w] =
                     [pc |-> "read", updates |-> updates, k |-> 1,
                      old |-> device[updates[1][1]]]]
    /\ emitted' = <<>>
    /\ called' = <<>>
    /\ last' = [op |-> "begin", arg |-> w]
    /\ UNCHANGED <<device, dock_pc, clock, dock_trace, start_pc, pause_pc, histVars>>

\* self._x = new
WriterWrite(w) ==
    /\ writers[w].pc = "read"
    /\ device' = [device EXCEPT ![Field(w)] = NewValue(w)]
    /\ writers' = [writers EXCEPT ![w].pc = "written"]
    /\ emitted' = <<>>
    /\ called' = <<>>
    /\ last' = [op |-> "write", arg |-> w]
    /\ UNCHANGED <<dock_pc, clock, dock_trace, start_pc, pause_pc, histVars>>

\* if old_x != new: notify (the MQTT status branch first resets the mission
\* completion flag for status 1); the REST writer goes on to its next key
WriterCompare(w) ==
    /\ writers[w].pc = "written"
    /\ \E changed \in {writers[w].old # NewValue(w)},
          reset \in {w = "mqtt" /\ Field(w) = "status_code"
                     /\ writers[w].old # NewValue(w)
                     /\ NewValue(w) = STATUS_MOWING} :
          /\ device' = IF reset
                       THEN [device EXCEPT
                               !.pose_coverage_handler = reset_mission_completion(@)]
                       ELSE device
          /\ Emit(IF changed
                  THEN <<Notification(PropertyName(Field(w)), NewValue(w))>>
                  ELSE <<>>)
          /\ History(Handler, FALSE, FALSE, reset)
    /\ writers' = [writers EXCEPT ![w] =
                     IF @.k < Len(@.updates)
                     THEN [@ EXCEPT !.k = @ + 1, !.pc = "read",
                                    !.old = device[writers[w].updates[writers[w].k + 1][1]]]
                     ELSE FrameIdle]
    /\ last' = [op |-> "compare", arg |-> w]
    /\ UNCHANGED <<dock_pc, clock, dock_trace, start_pc, pause_pc>>

NextRace ==
    \/ \E i \in 1..Len(MqttUpdates) : WriterBegin("mqtt", <<MqttUpdates[i]>>)
    \/ \E i \in 1..Len(RestUpdates) : WriterBegin("rest", RestUpdates[i])
    \/ \E w \in Writers : WriterWrite(w)
    \/ \E w \in Writers : WriterCompare(w)

SpecRace == Init /\ [][NextRace]_vars

(***************************************************************************)
(* Properties of the stop-then-dock sequence (Spec)                         *)
(***************************************************************************)
Has(trace, what) == \E i \in 1..Len(trace) : trace[i] = what

IsPrefix(t, u) == Len(t) <= Len(u) /\ SubSeq(u, 1, Len(t)) = t

ActivityEmitted == \E i \in 1..Len(emitted) : emitted[i][1] = "activity"

\* what one run of return_to_dock() may do, from the call to the return
TraceStopFailed == <<"clear", "send_stop", "stop_failed", "return_false">>

TraceUpToWait == <<"clear", "send_stop", "stop_ok", "notify_stopping">>

TraceDockOk == <<"send_dock", "dock_ok", "notify_docked", "return_true">>

TraceDockFailed == <<"send_dock", "dock_failed", "return_false">>

CompleteTraces ==
    {TraceStopFailed} \cup
    {TraceUpToWait \o w \o d :
        w \in {<<"wait", "signalled">>, <<"wait", "timeout">>,
               <<"wait_already_set", "signalled">>},
        d \in {TraceDockOk, TraceDockFailed}}

\* C1: when the STOP send of return_to_dock() reports failure, the call
\* returns failure at once: it never enters the wait, never sends DOCK and
\* emits no 'activity' notification.
C1_StopFailureAborts ==
    /\ (last.op = "stop_result" /\ ~last.ok) =>
          /\ dock_pc = "idle"
          /\ Signal.waiter = "none"
          /\ ~ActivityEmitted
          /\ dock_trace = TraceStopFailed
    /\ Has(dock_trace, "stop_failed") => dock_trace = TraceStopFailed

\* C1 witness: a rejected STOP while the completion signal was not set
C1_Witness ==
    /\ last.op = "stop_result" /\ ~last.ok
    /\ dock_trace = TraceStopFailed
    /\ ~Signal.value
    /\ device.status_code = 1

\* C2: when STOP was accepted and the wait ends by the 30-second timeout (the
\* signal was not set), DOCK is still sent and the call returns the success of
\* the DOCK send.
C2_TimeoutStillDocks ==
    /\ last.op = "wait_timeout" =>
          /\ dock_pc = "docking"
          /\ ~Signal.value
          /\ dock_trace = TraceUpToWait \o <<"wait", "timeout", "send_dock">>
    /\ Has(dock_trace, "timeout") =>
          \/ dock_pc = "docking" /\ dock_trace[Len(dock_trace)] = "send_dock"
          \/ dock_pc = "idle" /\ dock_trace \in
                {TraceUpToWait \o <<"wait", "timeout">> \o TraceDockOk,
                 TraceUpToWait \o <<"wait", "timeout">> \o TraceDockFailed}
    /\ (last.op = "dock_result" /\ Has(dock_trace, "timeout")) =>
          /\ dock_trace[Len(dock_trace)] =
                IF last.ok THEN "return_true" ELSE "return_false"
          /\ ActivityEmitted <=> last.ok

\* C2 witness: the call returned True after a wait that timed out
C2_Witness ==
    /\ last.op = "dock_result" /\ last.ok
    /\ dock_trace = TraceUpToWait \o <<"wait", "timeout">> \o TraceDockOk
    /\ emitted = <<Notification("activity", "docked")>>

C4_SequenceOrder ==
    /\ \E t \in CompleteTraces : IsPrefix(dock_trace, t)
    /\ last.op = "return_to_dock" => (~Signal.value /\ dock_pc = "stopping")
    /\ dock_pc = "stopping" => dock_trace = <<"clear", "send_stop">>
    /\ dock_pc = "waiting" <=> Signal.waiter # "none"
    /\ dock_pc = "waiting" =>
          /\ IsPrefix(TraceUpToWait, dock_trace)
          /\ Len(dock_trace) = Len(TraceUpToWait) + 1
    /\ dock_pc = "docking" =>
          /\ dock_trace[Len(dock_trace)] = "send_dock"
          /\ Has(dock_trace, "signalled") \/ Has(dock_trace, "timeout")
          /\ Has(dock_trace, "notify_stopping")
    /\ dock_pc = "idle" => (dock_trace = <<>> \/ dock_trace \in CompleteTraces)
    /\ (\E i \in 1..Len(emitted) : emitted[i] = Notification("activity", "stopping")) =>
          (last.op = "stop_result" /\ last.ok /\ dock_pc = "waiting")
    /\ (\E i \in 1..Len(emitted) : emitted[i] = Notification("activity", "docked")) =>
          (last.op = "dock_result" /\ last.ok /\ dock_pc = "idle")

\* C4 witness: a complete run through all four phases
C4_Witness ==
    /\ dock_pc = "idle"
    /\ dock_trace = TraceUpToWait \o <<"wait_already_set", "signalled">> \o TraceDockOk
    /\ emitted = <<Notification("activity", "docked")>>

\* C5: every dispatched mission-completion event (4:1) leaves the completion
\* signal set, whether or not a return_to_dock() is in progress; the signal
\* stays set until a return_to_dock() call clears it; and a completion event
\* outside a dock sequence changes nothing of the sequencer.
C5_SignalSetUntilCleared ==
    [][/\ (last'.op = "message" /\ IsCompletionEvent(last'.arg)) => Signal'.value
       /\ (Signal.value /\ ~Signal'.value) => last'.op = "return_to_dock"
       /\ (last'.op = "message" /\ IsCompletionEvent(last'.arg) /\ dock_pc = "idle") =>
             /\ UNCHANGED seqVars
             /\ Signal'.waiter = Signal.waiter
             /\ ~ActivityEmitted']_vars

\* C5 witness: the signal, set outside any dock sequence, is still set after
\* a start_mowing() and a status change
C5_Witness ==
    /\ Signal.value
    /\ dock_trace = <<>> /\ dock_pc = "idle"
    /\ last.op = "start_mowing_result" /\ last.ok
    /\ device.status_code = 13

(***************************************************************************)
(* Properties of the pose-coverage handler (SpecPose)                       *)
(***************************************************************************)
\* the last step was a successful full-format / short-format decode
LastFullDecode == last.op = "parse_value" /\ last.ok /\ IsFullFrame(last.arg)

LastShortDecode == last.op = "parse_value" /\ last.ok /\ IsShortFrame(last.arg)

\* raw centi-sqm areas carried by the frame of the last step (bytes 25-26 and
\* 28-29 of the interior, low byte first)
RawTotal == last.arg[27] + 256 * last.arg[28]

RawCurrent == last.arg[30] + 256 * last.arg[31]

\* the rational p equals n/d
RatIs(p, n, d) == p[1] * d = n * p[2]

\* p = min(100, current/total*100), or 0 when total = 0
IsPlainProgress(p, current, total) ==
    IF total = 0 THEN p[1] = 0
    ELSE IF current >= total THEN RatIs(p, 100, 1)
    ELSE RatIs(p, 100 * current, total)

\* C6: after every successful full-format decode carrying raw areas current
\* and total, progress_percent is min(100, current/total*100) (0 when total
\* is 0), except that it is exactly 100 when mission_completed is set and that
\* value is greater than 0; with the flag not set it is never forced.
C6_ProgressAfterFullDecode ==
    LastFullDecode =>
        /\ Handler.progress_percent # None
        /\ IF Handler.mission_completed /\ RawTotal > 0 /\ RawCurrent > 0
           THEN RatIs(Val(Handler.progress_percent), 100, 1)
           ELSE IsPlainProgress(Val(Handler.progress_percent), RawCurrent, RawTotal)

\* C6 witnesses: a decode of 50 of 100 sqm that reads 50 after the flag was
\* set and reset again
C6_Witness ==
    /\ LastFullDecode
    /\ RawTotal = 10000 /\ RawCurrent = 5000
    /\ ~Handler.mission_completed
    /\ marked_after_progress = FALSE /\ seen_nonzero
    /\ Handler.progress_percent = Some(<<50, 1>>)
    /\ Len(Handler.path_history) = PathHistoryCap

StoredCurrent ==
    (100 * Val(Handler.current_area_sqm)[1]) \div Val(Handler.current_area_sqm)[2]

StoredTotal ==
    (100 * Val(Handler.total_area_sqm)[1]) \div Val(Handler.total_area_sqm)[2]

\* C8 as stated: whenever progress is defined, progress_percent equals
\* min(100, current/total*100) of the stored areas, or it is exactly 100 while
\* mission_completed is true and a non-zero progress sample has been seen.
C8_ProgressInvariant ==
    Handler.progress_percent # None =>
        \/ IsPlainProgress(Val(Handler.progress_percent), StoredCurrent, StoredTotal)
        \/ /\ Handler.progress_percent = Some(<<100, 1>>)
           /\ Handler.mission_completed
           /\ seen_nonzero

\* C8 amended: whenever progress is defined, progress_percent equals
\* min(100, current/total*100) of the stored areas (0 when the total is 0), or
\* it is exactly 100 with a non-zero sample seen and both stored areas greater
\* than 0, and then mission_completed is true or reset_mission_completion()
\* ran and no full-format decode has succeeded since; and while
\* mission_completed is true and both stored areas are greater than 0 it is
\* exactly 100.
C8_ProgressInvariantAmended ==
    Handler.progress_percent # None =>
        /\ \/ IsPlainProgress(Val(Handler.progress_percent), StoredCurrent, StoredTotal)
           \/ /\ Handler.progress_percent = Some(<<100, 1>>)
              /\ seen_nonzero
              /\ StoredCurrent > 0 /\ StoredTotal > 0
              /\ Handler.mission_completed \/ reset_pending
        /\ (Handler.mission_completed /\ StoredCurrent > 0 /\ StoredTotal > 0) =>
              Handler.progress_percent = Some(<<100, 1>>)

\* C8 witness: the flag was reset and the 100 forced before is still shown
\* for stored areas of 50 of 100 sqm
C8_Witness ==
    /\ Handler.progress_percent = Some(<<100, 1>>)
    /\ ~Handler.mission_completed
    /\ reset_pending
    /\ StoredCurrent = 5000 /\ StoredTotal = 10000

\* C9: mark_mission_completed() called while progress_percent is None or 0
\* sets mission_completed and leaves progress_percent as it was.
C9_MarkKeepsNoProgress ==
    [][(last'.op = "mark_mission_completed" /\ ~ProgressPositive(Handler)) =>
          /\ Handler'.mission_completed
          /\ Handler'.progress_percent = Handler.progress_percent
          /\ Handler'.progress_percent \in {None, Some(<<0, 1>>)}]_vars

\* C9 witness: marked with a progress of 0 decoded before, still 0
C9_Witness ==
    /\ last.op = "mark_mission_completed"
    /\ Handler.mission_completed
    /\ Handler.progress_percent = Some(<<0, 1>>)
    /\ Handler.total_area_sqm = Some(<<100, 1>>)

\* C10: a successful short-format decode sets x and y to the signed 16-bit
\* values of its first four interior bytes and changes no other field of the
\* handler, whether or not mission_completed is set.
C10_ShortDecodeFrame ==
    [][(last'.op = "parse_value" /\ last'.ok /\ IsShortFrame(last'.arg)) =>
          LET ux == last'.arg[2] + 256 * last'.arg[3]
              uy == last'.arg[4] + 256 * last'.arg[5]
          IN  Handler' =
                [Handler EXCEPT
                   !.x_coordinate = Some(IF ux >= 32768 THEN ux - 65536 ELSE ux),
                   !.y_coordinate = Some(IF uy >= 32768 THEN uy - 65536 ELSE uy)]]_vars

\* C10 witness: a short decode moved x and y while a forced 100 and the
\* heading and segment of the last full decode are kept
C10_Witness ==
    /\ LastShortDecode
    /\ Handler.mission_completed
    /\ Handler.x_coordinate = Some(-7) /\ Handler.y_coordinate = Some(9)
    /\ Handler.progress_percent = Some(<<100, 1>>)
    /\ Handler.current_area_sqm = Some(<<96, 1>>)
    /\ Handler.heading = Some(-90) /\ Handler.segment = Some(40000)

\* the value has the two sentinels and an interior of a known length
HasSentinels(value) ==
    Len(value) >= 1 /\ value[1] = SENTINEL_BYTE /\ value[Len(value)] = SENTINEL_BYTE

HasKnownLength(value) == IsFullFrame(value) \/ IsShortFrame(value)

\* C11: a pose payload whose interior length (without the two sentinels) is
\* neither 6 nor 31 fails decode, a payload of correct length whose first or
\* last byte is not 0xCE fails decode, and every failed decode leaves all
\* fields of the handler and the path history as they were.
C11_BadFrameRejected ==
    [][last'.op = "parse_value" =>
          /\ ~HasKnownLength(last'.arg) => ~last'.ok
          /\ (HasKnownLength(last'.arg) /\ ~HasSentinels(last'.arg)) => ~last'.ok
          /\ ~last'.ok => Handler' = Handler]_vars

\* C11 witness: a short-length frame with a wrong last byte was rejected
\* while the handler held a decoded state and a full path history
C11_Witness ==
    /\ last.op = "parse_value" /\ ~last.ok
    /\ IsShortFrame(last.arg) /\ last.arg[1] = SENTINEL_BYTE
    /\ last.arg[Len(last.arg)] # SENTINEL_BYTE
    /\ Handler.progress_percent = Some(<<96, 1>>)
    /\ Len(Handler.path_history) = PathHistoryCap

\* the path point a full frame carries
PointOf(value) ==
    LET s16(lo, hi) == IF lo + 256 * hi >= 32768 THEN lo + 256 * hi - 65536
                       ELSE lo + 256 * hi
    IN  [x |-> s16(value[2], value[3]), y |-> s16(value[4], value[5]),
         heading |-> s16(value[8], value[9]),
         segment |-> value[24] + 256 * value[25]]

\* C12: the path history never holds more entries than the cap (1000 in the
\* code, PathHistoryCap here): every successful full-format decode appends
\* its (x, y, heading, segment) at the end and, when the history was full,
\* evicts the oldest entry; no other decode changes the history. The history
\* is thus the most recent min(n, cap) full-format samples in arrival order,
\* n counted from construction or the last clear_path_history().
C12_PathHistoryFifo ==
    [][/\ Len(Handler'.path_history) <= PathHistoryCap
       /\ (last'.op = "parse_value" /\ last'.ok /\ IsFullFrame(last'.arg)) =>
             Handler'.path_history =
                 IF Len(Handler.path_history) < PathHistoryCap
                 THEN Append(Handler.path_history, PointOf(last'.arg))
                 ELSE Append(Tail(Handler.path_history), PointOf(last'.arg))
       /\ (last'.op = "parse_value" /\ ~(last'.ok /\ IsFullFrame(last'.arg))) =>
             Handler'.path_history = Handler.path_history
       /\ last'.op \in {"mark_mission_completed", "reset_mission_completion"} =>
             Handler'.path_history = Handler.path_history]_vars

\* C12 witness: a full history whose oldest point was evicted: the newest
\* point differs from the two before it, which an eviction of the newest
\* would not leave
C12_Witness ==
    /\ LastFullDecode
    /\ Len(Handler.path_history) = PathHistoryCap
    /\ Handler.path_history[PathHistoryCap] = PointOf(last.arg)
    /\ Handler.path_history[PathHistoryCap].x = -150
    /\ \A i \in 1..(PathHistoryCap - 1) : Handler.path_history[i].x = 100
    /\ seen_nonzero /\ reset_pending = FALSE /\ Handler.mission_completed

(***************************************************************************)
(* Properties of the dispatcher (SpecDispatch)                              *)
(***************************************************************************)
\* the message is a properties_changed message of one entry for (siid, piid)
IsEntryFor(message, siid, piid) ==
    /\ message.method = "properties_changed"
    /\ Len(message.params) = 1
    /\ message.params[1].siid = siid /\ message.params[1].piid = piid

\* an MQTT status update carrying status code 1
IsStatusMowingMessage(message) ==
    /\ IsEntryFor(message, 2, 1)
    /\ message.params[1].value.t = "int"
    /\ message.params[1].value.v = 1

\* a 1:4 message carrying a frame of full length
IsFullPoseMessage(message) ==
    /\ IsEntryFor(message, 1, 4)
    /\ IsFullFrame(message.params[1].value.v)

UnhandledEmitted(out) == \E i \in 1..Len(out) : out[i][1] = "unhandled_mqtt"

\* C13 as stated: every status update carrying status code 1, delivered by an
\* MQTT properties_changed message or by the REST device-info refresh, leaves
\* mission_completed false.
C13_StatusMowingResets ==
    /\ (last.op = "message" /\ IsStatusMowingMessage(last.arg)) =>
          ~Handler.mission_completed
    /\ (last.op = "device_info" /\ "latestStatus" \in DOMAIN last.arg
            /\ last.arg.latestStatus = 1) =>
          ~Handler.mission_completed

\* C13 witness: the device-info refresh changed the status to 1 (mowing) and
\* the mission is still marked completed, the progress still forced to 100
C13_Witness ==
    /\ last.op = "device_info" /\ last.arg = [latestStatus |-> 1]
    /\ emitted = <<Notification("status", 1)>>
    /\ device.status_code = 1
    /\ Handler.mission_completed
    /\ Handler.progress_percent = Some(<<100, 1>>)
    /\ Handler.current_area_sqm = Some(<<96, 1>>)

\* C14 as stated: after any start_mowing() call has returned,
\* mission_completed is false.
C14_StartAlwaysResets ==
    last.op = "start_mowing_result" => ~Handler.mission_completed

\* C14 amended: start_mowing() sends START; when the send succeeds the call
\* resets mission_completed, notifies 'activity' = 'mowing' and returns True,
\* and a full-format decode dispatched while the flag is false is not forced
\* to 100; when the send fails the call returns False, notifies nothing and
\* leaves the flag (and the whole handler) as it was.
C14_StartResetsOnSuccess ==
    [][/\ last'.op = "start_mowing_result" =>
             /\ start_pc = "sending" /\ start_pc' = "idle"
             /\ IF last'.ok
                THEN /\ Handler' = [Handler EXCEPT !.mission_completed = FALSE]
                     /\ emitted' = <<Notification("activity", "mowing")>>
                ELSE /\ device' = device
                     /\ emitted' = <<>>
       /\ (last'.op = "message" /\ IsFullPoseMessage(last'.arg)
              /\ ~UnhandledEmitted(emitted') /\ ~Handler.mission_completed) =>
             LET frame == last'.arg.params[1].value.v
             IN  IsPlainProgress(Val(Handler'.progress_percent),
                                 frame[30] + 256 * frame[31],
                                 frame[27] + 256 * frame[28])]_vars

\* C14 witness: an accepted START reset the flag of a completed mission; the
\* 100 forced before is still shown
C14_Witness ==
    /\ last.op = "start_mowing_result" /\ last.ok
    /\ ~Handler.mission_completed
    /\ Signal.value
    /\ Handler.progress_percent = Some(<<100, 1>>)
    /\ Handler.current_area_sqm = Some(<<96, 1>>)
    /\ device.status_code = 0

\* C15: a mission-completion event (4:1) dispatched while progress_percent
\* is greater than 0 leaves progress_percent at 100 and mission_completed
\* set; a successful start_mowing() clears the flag, and a full-format decode
\* dispatched after it (the flag still clear) shows the progress its areas
\* give.
C15_CompletionCapsUntilStart ==
    [][/\ (last'.op = "message" /\ IsCompletionEvent(last'.arg)) =>
             /\ Handler'.mission_completed
             /\ ProgressPositive(Handler) =>
                    Handler'.progress_percent = Some(<<100, 1>>)
             /\ ~ProgressPositive(Handler) =>
                    Handler'.progress_percent = Handler.progress_percent
       /\ (last'.op = "start_mowing_result" /\ last'.ok) =>
             ~Handler'.mission_completed
       /\ (last'.op = "message" /\ IsFullPoseMessage(last'.arg)
              /\ ~UnhandledEmitted(emitted')) =>
             LET frame == last'.arg.params[1].value.v
                 current == frame[30] + 256 * frame[31]
                 total == frame[27] + 256 * frame[28]
             IN  IF Handler.mission_completed /\ current > 0 /\ total > 0
                 THEN Handler'.progress_percent = Some(<<100, 1>>)
                 ELSE IsPlainProgress(Val(Handler'.progress_percent), current, total)]_vars

\* C15 witness: the lifecycle of the repository's workflow test: 96 % decoded
\* and capped by the completion event, start_mowing() (the status never
\* changed, so nothing else reset the flag), then 30 of 100 sqm reads 30
C15_Witness ==
    /\ last.op = "message" /\ IsFullPoseMessage(last.arg)
    /\ Handler.progress_percent = Some(<<30, 1>>)
    /\ ~Handler.mission_completed
    /\ Signal.value
    /\ device.status_code = 0
    /\ Len(Handler.path_history) = 2
    /\ seen_nonzero /\ ~marked_after_progress

\* every entry of params_list routed, whatever the outcome of the others
RECURSIVE RouteEveryEntry(_, _)
RouteEveryEntry(d, params_list) ==
    IF params_list = <<>>
    THEN [device |-> d, out |-> <<>>]
    ELSE LET r == handle_mqtt_property_update(d, Head(params_list))
             rest == RouteEveryEntry(r.device, Tail(params_list))
         IN  [device |-> rest.device, out |-> r.out \o rest.out]

\* C16 as stated: for a properties_changed message, every entry of params is
\* routed to its decoder: the state after the message is the state after all
\* entries were applied in order, and the notifications of all entries were
\* emitted.
C16_EveryEntryRouted ==
    [][(last'.op = "message" /\ last'.arg.method = "properties_changed") =>
          LET all == RouteEveryEntry(device, last'.arg.params)
          IN  /\ device' = all.device
              /\ IsPrefix(all.out, emitted')]_vars

\* C16 witness: a message carried battery 50 and status 1; the battery was
\* stored and notified, the status entry was never looked at
C16_Witness ==
    /\ last.op = "message" /\ last.arg.method = "properties_changed"
    /\ Len(last.arg.params) = 2
    /\ last.arg.params[2].siid = 2 /\ last.arg.params[2].value.v = 1
    /\ device.battery_percent = 50
    /\ device.status_code = 0
    /\ emitted = <<Notification("battery_percent", 50)>>
    /\ Handler.mission_completed

\* the registry entries the model knows
KnownProperties ==
    {BATTERY_PROPERTY, STATUS_PROPERTY, POSE_COVERAGE_PROPERTY,
     SCHEDULING_TASK_PROPERTY, MOWER_CONTROL_STATUS_PROPERTY,
     FIRMWARE_INSTALL_STATE_PROPERTY, FIRMWARE_DOWNLOAD_PROGRESS_PROPERTY}

\* the entry matches no registry entry, or carries a wrong-typed value for a
\* scalar property, or a value its decoder rejects
IsMalformedOrUnknown(entry) ==
    \/ <<entry.siid, entry.piid>> \notin KnownProperties
    \/ /\ <<entry.siid, entry.piid>> \in {BATTERY_PROPERTY, STATUS_PROPERTY}
       /\ entry.value.t # "int"
    \/ /\ <<entry.siid, entry.piid>> = POSE_COVERAGE_PROPERTY
       /\ ~parse_value(PoseCoverageHandlerInit, entry.value.v).ok

\* C17 as stated: every entry that is malformed for a recognized (siid, piid)
\* or matches no registry entry is surfaced as an 'unhandled_mqtt'
\* notification carrying the raw message.
C17_MalformedSurfaced ==
    (/\ last.op = "message" /\ last.arg.method = "properties_changed"
     /\ \E i \in 1..Len(last.arg.params) : IsMalformedOrUnknown(last.arg.params[i])) =>
        \E i \in 1..Len(emitted) :
            emitted[i][1] = "unhandled_mqtt" /\ emitted[i][2] = last.arg

\* C17 witness: a battery entry with a non-numeric value was dispatched:
\* nothing was emitted, the battery is what it was
C17_Witness ==
    /\ last.op = "message" /\ IsEntryFor(last.arg, 3, 1)
    /\ last.arg.params[1].value.t = "str"
    /\ emitted = <<>>
    /\ device.battery_percent = 80

\* C18 as stated: a props message never produces an 'unhandled_mqtt'
\* notification, also when it carries no recognized key at all.
C18_PropsNeverUnhandled ==
    (last.op = "message" /\ last.arg.method = "props") => ~UnhandledEmitted(emitted)

\* C18 amended: a props message that carries the known key ota_state never
\* produces 'unhandled_mqtt', whatever other keys it carries: ota_state is
\* stored and notified when it changed, the other keys change nothing; a
\* props message without any known key changes nothing and produces exactly
\* one 'unhandled_mqtt' notification carrying the raw message.
C18_PropsUnhandledWithoutKnownKey ==
    [][(last'.op = "message" /\ last'.arg.method = "props") =>
          IF "ota_state" \in DOMAIN last'.arg.params
          THEN /\ device' = [device EXCEPT
                                !.ota_state = Some(last'.arg.params.ota_state)]
               /\ emitted' = IF device.ota_state # Some(last'.arg.params.ota_state)
                             THEN <<Notification("ota_state",
                                                 last'.arg.params.ota_state)>>
                             ELSE <<>>
          ELSE /\ device' = device
               /\ emitted' = <<Notification("unhandled_mqtt", last'.arg)>>]_vars

\* C18 witness: a props message with ota_state and an unknown key was taken
\* without an 'unhandled_mqtt' notification
C18_Witness ==
    /\ last.op = "message" /\ last.arg.method = "props"
    /\ DOMAIN last.arg.params = {"ota_state", "unknown_param"}
    /\ emitted = <<Notification("ota_state", "idle")>>
    /\ device.ota_state = Some("idle")

(***************************************************************************)
(* Claims about the property streams (SpecStreams)                          *)
(***************************************************************************)
\* the names of the notifications of a step, in order
Names(out) == [i \in 1..Len(out) |-> out[i][1]]

\* the last step took a message that was not reported unhandled
HandledStep == last'.op = "message" /\ ~UnhandledEmitted(emitted')

C20_RejectedLeavesState ==
    [][(last'.op = "message" /\ UnhandledEmitted(emitted')) =>
          /\ device' = device
          /\ Names(emitted') = <<"unhandled_mqtt">>]_vars

\* C20 failing state: a task message was rejected, and the task handler, which
\* held no task before any task message was accepted, now holds a task type
\* that current_task_data exposes
C20_Witness ==
    /\ last.op = "message" /\ IsEntryFor(last.arg, 2, 50)
    /\ UnhandledEmitted(emitted)
    /\ device.scheduling_handler.task_handler.task_type # None
    /\ device.scheduling_handler.task_handler.coverage_target = None

(***************************************************************************)
(* Claims about the subscribers (SpecNotify)                                *)
(***************************************************************************)
\* the invocations expected of a step that emitted out with callbacks
\* registered: invocation k is notification (k-1) \div n + 1 handed to
\* callback (k-1) % n + 1, where n is the number of callbacks
ExpectedCalls(callbacks, out) ==
    LET n == Len(callbacks)
    IN  [k \in 1..(Len(out) * n) |->
            <<callbacks[((k - 1) % n) + 1].id,
              out[((k - 1) \div n) + 1][1],
              out[((k - 1) \div n) + 1][2]>>]

\* C21: every notification of a step is handed, during the step, to every
\* registered callback in registration order, whether or not an earlier
\* callback raised, and the notifications that follow in the same message are
\* handed on as well.
C21_EveryCallbackCalledInOrder ==
    called = ExpectedCalls(device.property_callbacks, emitted)

\* C21 witness: a raising callback is registered in front of another one, a
\* mower-control message notified three times, and the callback behind the
\* raising one got all three
C21_Witness ==
    /\ last.op = "message"
    /\ Len(device.property_callbacks) = 2
    /\ device.property_callbacks[1].raises
    /\ ~device.property_callbacks[2].raises
    /\ Len(emitted) = 3
    /\ Len(called) = 6
    /\ called[6][1] = device.property_callbacks[2].id
    /\ called[6][2] = "mower_status_code"

(***************************************************************************)
(* Claims about the two writers (SpecRace)                                  *)
(***************************************************************************)
\* C22 as stated: the updates of the MQTT callback and of the REST refresh
\* are mutually exclusive: the two writers are never both between their read
\* of the old value and their compare-and-notify.
C22_WritersExclusive ==
    ~(writers["mqtt"].pc # "idle" /\ writers["rest"].pc # "idle")

\* C22 failing state: the MQTT writer has just notified the change of the
\* battery to 50, and the REST writer, which read the old battery before that
\* write and has written 50 itself, stands before its compare and will notify
\* the same change a second time
C22_Witness ==
    /\ last.op = "compare" /\ last.arg = "mqtt"
    /\ emitted = <<Notification("battery_percent", 50)>>
    /\ writers["rest"].pc = "written"
    /\ Field("rest") = "battery_percent" /\ NewValue("rest") = 50
    /\ writers["rest"].old # 50
    /\ device.battery_percent = 50

(***************************************************************************)
(* Claims about the commands (Spec)                                         *)
(***************************************************************************)
\* C23: while return_to_dock() is under way (awaiting the STOP send, suspended
\* in the wait for the completion signal, or awaiting the DOCK send), every
\* inbound message can be dispatched and start_mowing() and pause() can be
\* called: neither the wait nor a send keeps the dispatcher or another
\* command out.
C23_DockBlocksNothing ==
    dock_pc # "idle" =>
        /\ \A params \in EventParams : ENABLED DeliverEvent(params)
        /\ \A value \in StatusValues : ENABLED DeliverStatus(value)
        /\ start_pc = "idle" => ENABLED StartMowingCall
        /\ start_pc = "sending" => \A ok \in BOOLEAN : ENABLED StartMowingResult(ok)
        /\ pause_pc = "idle" => ENABLED PauseCall
        /\ pause_pc = "sending" => \A ok \in BOOLEAN : ENABLED PauseResult(ok)

\* C23 witness: a status message was dispatched and stored, with its
\* notification, while return_to_dock() was suspended in the wait and
\* start_mowing() was awaiting its send
C23_Witness ==
    /\ dock_pc = "waiting" /\ Signal.waiter = "pending"
    /\ start_pc = "sending"
    /\ last.op = "message" /\ IsStatusMowingMessage(last.arg)
    /\ device.status_code = 1
    /\ emitted = <<Notification("status", 1)>>

\* how many times an entry occurs in a trace
Count(trace, entry) == Cardinality({i \in 1..Len(trace) : trace[i] = entry})

\* C24: one call of return_to_dock() sends STOP at most once and DOCK at most
\* once; a call of start_mowing() or pause() sends its action when it is
\* made, and the one answer of that send, good or bad, ends the call: a send
\* is under way only because a call was just made, never because an answer
\* came.
C24_NoRetry ==
    [][/\ Count(dock_trace', "send_stop") <= 1
       /\ Count(dock_trace', "send_dock") <= 1
       /\ last'.op \in {"stop_result", "dock_result"} =>
              Len(dock_trace') > Len(dock_trace) /\ dock_pc' # dock_pc
       /\ last'.op = "start_mowing_result" =>
              start_pc = "sending" /\ start_pc' = "idle"
       /\ last'.op = "pause_result" =>
              pause_pc = "sending" /\ pause_pc' = "idle"
       /\ (start_pc' = "sending" /\ start_pc # "sending") => last'.op = "start_mowing"
       /\ (pause_pc' = "sending" /\ pause_pc # "sending") => last'.op = "pause"]_vars

\* C24 witness: a return_to_dock() call whose DOCK send failed has ended, with
\* one STOP and one DOCK sent
C24_Witness ==
    /\ last.op = "dock_result" /\ ~last.ok
    /\ dock_pc = "idle"
    /\ Count(dock_trace, "send_stop") = 1
    /\ Count(dock_trace, "send_dock") = 1

\* the last entry of the trace of return_to_dock()
Returned(trace) == trace[Len(trace)]

\* C25 as stated: a command returns failure exactly when a send it issued
\* reported failure and notifies 'activity' only in the step that takes the
\* good answer of the corresponding send; no step of a command changes device
\* state before the answer of its first send, nor does the step that takes a
\* bad answer of it.
C25_FailureLeavesDevice ==
    [][/\ last'.op \in {"start_mowing", "pause", "return_to_dock"} =>
              device' = device /\ emitted' = <<>>
       /\ (last'.op \in {"start_mowing_result", "pause_result", "stop_result"}
           /\ ~last'.ok) => device' = device /\ emitted' = <<>>]_vars

\* C25 amended: start_mowing() and pause() return the answer of their send;
\* return_to_dock() returns False when the STOP send or the DOCK send failed
\* and True when the DOCK send succeeded; 'mowing', 'paused', 'stopping' and
\* 'docked' are notified in the step that takes the good answer of the START,
\* PAUSE, STOP and DOCK send and in no other step of a command; the step that
\* takes a bad answer changes no device state, and before the answer of its
\* first send a command changes none either, except that return_to_dock()
\* clears the completion signal.
C25_FailureIffSendFailed ==
    [][/\ last'.op \in {"start_mowing", "pause"} =>
              device' = device /\ emitted' = <<>>
       /\ last'.op = "return_to_dock" =>
              /\ device' = [device EXCEPT !.mission_completed_event = EventClear(@)]
              /\ emitted' = <<>>
       /\ last'.op \in {"tick", "wait_signalled", "wait_timeout"} => emitted' = <<>>
       /\ last'.op = "start_mowing_result" =>
              /\ last'.returned = last'.ok
              /\ emitted' = IF last'.ok THEN <<Notification("activity", "mowing")>>
                            ELSE <<>>
              /\ ~last'.ok => device' = device
       /\ last'.op = "pause_result" =>
              /\ last'.returned = last'.ok
              /\ emitted' = IF last'.ok THEN <<Notification("activity", "paused")>>
                            ELSE <<>>
              /\ device' = device
       /\ last'.op = "stop_result" =>
              IF last'.ok
              THEN /\ emitted' = <<Notification("activity", "stopping")>>
                   /\ dock_pc' = "waiting"
              ELSE /\ emitted' = <<>>
                   /\ device' = device
                   /\ dock_pc' = "idle" /\ Returned(dock_trace') = "return_false"
       /\ last'.op = "dock_result" =>
              /\ dock_pc' = "idle" /\ device' = device
              /\ emitted' = IF last'.ok THEN <<Notification("activity", "docked")>>
                            ELSE <<>>
              /\ Returned(dock_trace') = IF last'.ok THEN "return_true"
                                         ELSE "return_false"]_vars

\* C25 witness: return_to_dock() was called with the completion signal of an
\* earlier mission set, its STOP send failed and it returned False: nothing
\* was notified, and the signal is cleared
C25_Witness ==
    /\ last.op = "stop_result" /\ ~last.ok
    /\ dock_trace = <<"clear", "send_stop", "stop_failed", "return_false">>
    /\ emitted = <<>>
    /\ Handler.mission_completed
    /\ ~Signal.value

(***************************************************************************)
(* Claims about the device code (SpecDeviceCode)                            *)
(***************************************************************************)
DeviceCode == device.device_code_handler.device_code

\* the step dispatched a 2:2 message carrying an integer code
DeviceCodeStep ==
    /\ last'.op = "message" /\ IsEntryFor(last'.arg, 2, 2)
    /\ last'.arg.params[1].value.t = "int"

\* the names the device-code notifications go by
DeviceCodeNames ==
    {"device_code", "device_code_error", "device_code_warning", "device_code_info"}

\* C26: a 2:2 update emits device-code notifications only when the parsed
\* code differs from the stored code: an update carrying the stored code
\* emits nothing, and no other message emits a device-code notification.
C26_DeviceCodeOnlyOnChange ==
    [][/\ (DeviceCodeStep /\ DeviceCode = Some(last'.arg.params[1].value.v)) =>
              emitted' = <<>> /\ device' = device
       /\ (\E i \in 1..Len(emitted') : emitted'[i][1] \in DeviceCodeNames) =>
              DeviceCodeStep /\ DeviceCode' # DeviceCode]_vars

\* C26 witness: code 2 was delivered while 2 was the stored code, and nothing
\* was notified
C26_Witness ==
    /\ last.op = "message" /\ IsEntryFor(last.arg, 2, 2)
    /\ last.arg.params[1].value.t = "int" /\ last.arg.params[1].value.v = 2
    /\ DeviceCode = Some(2)
    /\ emitted = <<>>

\* the channel notifications among the notifications of a step
Channels(out) ==
    {i \in 1..Len(out) :
        out[i][1] \in {"device_code_error", "device_code_warning", "device_code_info"}}

\* C27: a step that changes the device code reports the change on exactly
\* one of the three channels: error when the code is classified an error,
\* else warning when it is classified a warning, else info.
C27_OneChannelPerChange ==
    [][(DeviceCodeStep /\ DeviceCode' # DeviceCode) =>
          /\ Cardinality(Channels(emitted')) = 1
          /\ \A i \in Channels(emitted') :
                emitted'[i][1] =
                    IF Val(DeviceCode') \in DEVICE_ERROR_CODES
                    THEN "device_code_error"
                    ELSE IF Val(DeviceCode') \in DEVICE_WARNING_CODES
                    THEN "device_code_warning"
                    ELSE "device_code_info"]_vars

\* C27 witness: the code changed to the warning 1 and the change went to the
\* warning channel alone
C27_Witness ==
    /\ last.op = "message" /\ IsEntryFor(last.arg, 2, 2)
    /\ DeviceCode = Some(1)
    /\ Names(emitted) = <<"device_code", "device_code_warning">>

(***************************************************************************)
(* Claims about the mower control decoder (SpecControl)                     *)
(***************************************************************************)
\* the value is {'status': [[x, code], ...]} with a numeric code
IsControlStatus(value) ==
    /\ value.t = "dict" /\ "status" \in DOMAIN value.v
    /\ value.v.status.t = "list" /\ Len(value.v.status.v) > 0
    /\ value.v.status.v[1].t = "list" /\ Len(value.v.status.v[1].v) >= 2
    /\ value.v.status.v[1].v[2].t = "int"

\* the value is {'status': []}
IsControlStatusEmpty(value) ==
    /\ value.t = "dict" /\ "status" \in DOMAIN value.v
    /\ value.v.status.t = "list" /\ Len(value.v.status.v) = 0

\* the action of a known status code
ActionOf(code) ==
    IF code = 0 THEN "continue" ELSE IF code = 2 THEN "completed" ELSE "pause"

\* C28: a decode of {'status': [[x, code]]} succeeds exactly for the codes 0,
\* 2 and 4, whatever x, and then stores the code and CONTINUE, COMPLETED or
\* PAUSE; a decode of {'status': []} succeeds with action None and status_code
\* None; every other value fails decode with a False result.
C28_ControlDecode ==
    [][last'.op = "mower_control_parse" =>
        LET value == last'.arg
            h == ControlStatusHandler'
        IN  IF IsControlStatusEmpty(value)
            THEN last'.ok /\ h.action = None /\ h.status_code = None
            ELSE IF IsControlStatus(value) /\ value.v.status.v[1].v[2].v \in {0, 2, 4}
            THEN /\ last'.ok
                 /\ h.status_code = Some(value.v.status.v[1].v[2].v)
                 /\ h.action = Some(ActionOf(value.v.status.v[1].v[2].v))
            ELSE ~last'.ok]_vars

\* C28 witness: {'status': [[3, 4]]} was decoded as PAUSE with status code 4
C28_Witness ==
    /\ last.op = "mower_control_parse" /\ last.ok
    /\ IsControlStatus(last.arg)
    /\ last.arg.v.status.v[1].v[1].v = 3
    /\ ControlStatusHandler.action = Some("pause")
    /\ ControlStatusHandler.status_code = Some(4)

(***************************************************************************)
(* Claims about the task decoder (SpecTask)                                 *)
(***************************************************************************)
\* the message carries 't', 'd' and each of 'exe', 'o', 'status' inside 'd'
TaskComplete(value) ==
    /\ value.t = "dict"
    /\ "t" \in DOMAIN value.v /\ "d" \in DOMAIN value.v
    /\ {"exe", "o", "status"} \subseteq DOMAIN value.v.d

\* the value this message carries for a key of 'd', None when it omits it
Carried(value, key) ==
    IF key \in DOMAIN value.v.d THEN Some(value.v.d[key]) ELSE None

\* C29: a task decode fails when 't', 'd' or one of 'exe', 'o', 'status' inside
\* 'd' is missing; when it succeeds, area_id, region_id and elapsed_time each
\* equal the value this message carries, or None when this message omits it,
\* whatever an earlier message left in the handler.
C29_TaskDecode ==
    [][last'.op = "task_parse" =>
        /\ ~TaskComplete(last'.arg) => ~last'.ok
        /\ last'.ok =>
            /\ TaskHandlerState'.area_id = Carried(last'.arg, "area_id")
            /\ TaskHandlerState'.region_id = Carried(last'.arg, "region_id")
            /\ TaskHandlerState'.elapsed_time = Carried(last'.arg, "time")]_vars

\* C29 witness: a message without area_id and time but with region_id was
\* decoded after earlier ones had set all three; the handler holds None, the
\* region list of this message, and None
C29_Witness ==
    /\ last.op = "task_parse" /\ last.ok
    /\ DOMAIN last.arg.v.d = {"exe", "o", "status", "region_id"}
    /\ TaskHandlerState.area_id = None
    /\ TaskHandlerState.region_id = Some(<<2, 3>>)
    /\ TaskHandlerState.elapsed_time = None

(***************************************************************************)
(* Claims about event_occured messages (SpecDispatch)                       *)
(***************************************************************************)
\* the step took an event_occured message
EventStep == last'.op = "message" /\ last'.arg.method = "event_occured"

\* the (siid, eiid) of the event the step took
EventKey == <<last'.arg.params.siid, last'.arg.params.eiid>>

\* C30: an event_occured message with the firmware-validation event (1:1)
\* emits exactly one 'firmware_validation' notification and no 'unhandled_mqtt';
\* an event_occured message whose (siid, eiid) is neither firmware validation
\* nor mission completion emits one 'unhandled_mqtt' notification and changes
\* neither the completion signal nor the mission_completed flag.
C30_KnownAndUnknownEvents ==
    [][EventStep =>
        /\ EventKey = FIRMWARE_VALIDATION_EVENT =>
              Names(emitted') = <<"firmware_validation">>
        /\ EventKey \notin {FIRMWARE_VALIDATION_EVENT, MISSION_COMPLETION_EVENT} =>
              /\ Names(emitted') = <<"unhandled_mqtt">>
              /\ Signal' = Signal
              /\ Handler'.mission_completed = Handler.mission_completed]_vars

\* C30 witness: the unknown event 4:2 arrived after a mission completion; it
\* was notified as unhandled and the signal and the flag are still set
C30_Witness ==
    /\ last.op = "message" /\ last.arg.method = "event_occured"
    /\ last.arg.params.siid = 4 /\ last.arg.params.eiid = 2
    /\ Names(emitted) = <<"unhandled_mqtt">>
    /\ Signal.value
    /\ Handler.mission_completed

(***************************************************************************)
(* Claims about the bytes of a full frame (SpecDecode)                      *)
(***************************************************************************)
\* the byte at an offset of the interior (the value without its sentinels)
InteriorByte(value, offset) == value[offset + 2]

\* the unsigned 16-bit little-endian value at an offset of the interior
Raw16(value, offset) ==
    InteriorByte(value, offset) + 256 * InteriorByte(value, offset + 1)

\* the same read as a signed value
Signed16(value, offset) ==
    IF Raw16(value, offset) >= 32768
    THEN Raw16(value, offset) - 65536
    ELSE Raw16(value, offset)

\* C31: after a full frame was decoded, x, y and heading are the signed 16-bit
\* little-endian values at interior offsets 0, 2 and 6, segment is the
\* unsigned value at offset 22, and total and current area are the unsigned
\* values at offsets 25 and 28 divided by 100; being functions of these twelve
\* bytes, the fields do not depend on any other byte.
C31_FullDecodeBitExact ==
    (last.op = "parse_value" /\ last.ok /\ IsFullFrame(last.arg)) =>
        /\ Handler.x_coordinate = Some(Signed16(last.arg, 0))
        /\ Handler.y_coordinate = Some(Signed16(last.arg, 2))
        /\ Handler.heading = Some(Signed16(last.arg, 6))
        /\ Handler.segment = Some(Raw16(last.arg, 22))
        /\ Handler.total_area_sqm = Some(Rat(Raw16(last.arg, 25), 100))
        /\ Handler.current_area_sqm = Some(Rat(Raw16(last.arg, 28), 100))

\* C31 witness: a frame with 0xFF at every unused offset was decoded to x = -1,
\* y = 32767, heading = -32768, segment = 32768, total 0.01 sqm and current
\* 327.68 sqm
C31_Witness ==
    /\ last.op = "parse_value" /\ last.ok /\ IsFullFrame(last.arg)
    /\ InteriorByte(last.arg, 4) = 255 /\ InteriorByte(last.arg, 24) = 255
    /\ Handler.x_coordinate = Some(-1)
    /\ Handler.y_coordinate = Some(32767)
    /\ Handler.heading = Some(-32768)
    /\ Handler.segment = Some(32768)
    /\ Handler.total_area_sqm = Some(<<1, 100>>)
    /\ Handler.current_area_sqm = Some(<<8192, 25>>)

(***************************************************************************)
(* Claims about the settings echo and the summary (SpecScheduling)          *)
(***************************************************************************)
Scheduling == device.scheduling_handler

\* the step took an update of the property siid:piid
SchedulingStep(siid, piid) ==
    /\ last'.op = "scheduling_update"
    /\ last'.arg[1] = siid /\ last'.arg[2] = piid

\* C32: a settings echo (2:51) succeeds exactly when its value is a dict and
\* emits no notification; a summary (2:52) succeeds exactly when its value is
\* a dict, the empty dict included, and then emits one summary notification;
\* every update leaves the stored state of the two other sub-decoders as it
\* was.
C32_SettingsAndSummary ==
    [][/\ SchedulingStep(2, 51) =>
            /\ last'.ok <=> last'.arg[3].t = "dict"
            /\ emitted' = <<>>
            /\ Scheduling'.task_handler = Scheduling.task_handler
            /\ Scheduling'.summary_handler = Scheduling.summary_handler
       /\ SchedulingStep(2, 52) =>
            /\ last'.ok <=> last'.arg[3].t = "dict"
            /\ Names(emitted') = IF last'.ok THEN <<"scheduling_summary">> ELSE <<>>
            /\ Scheduling'.task_handler = Scheduling.task_handler
            /\ Scheduling'.settings_change_handler = Scheduling.settings_change_handler
       /\ SchedulingStep(2, 50) =>
            /\ Scheduling'.settings_change_handler = Scheduling.settings_change_handler
            /\ Scheduling'.summary_handler = Scheduling.summary_handler]_vars

\* C32 witness: the empty summary {} was accepted and notified after a task
\* and a settings echo had been stored, and both are still stored
C32_Witness ==
    /\ last.op = "scheduling_update" /\ last.ok
    /\ last.arg[1] = 2 /\ last.arg[2] = 52
    /\ DOMAIN last.arg[3].v = {}
    /\ Names(emitted) = <<"scheduling_summary">>
    /\ Scheduling.task_handler.coverage_target = Some(100)
    /\ Scheduling.settings_change_handler.last_value # None
    /\ DOMAIN Scheduling.summary_handler.summary_data = {}

(***************************************************************************)
(* Claims about the signal a return_to_dock() call waits on (Spec)          *)
(***************************************************************************)
\* C33: a return_to_dock() call leaves the signal cleared and sends STOP
\* whatever the signal was before; the signal becomes set only in a step that
\* dispatches a mission-completion event; a wait that ends while the signal is
\* not set ends by the timeout, after 30 seconds; and every end of the wait is
\* followed by the DOCK send. So a completion event that arrived before the
\* call, with none after it, leaves the call to its timeout and DOCK is sent
\* after it.
C33_OnlyLaterCompletionEndsWait ==
    [][/\ (dock_pc = "idle" /\ dock_pc' = "stopping") =>
            /\ ~Signal'.value
            /\ dock_trace'[Len(dock_trace')] = "send_stop"
       /\ (~Signal.value /\ Signal'.value) =>
            (last'.op = "message" /\ IsCompletionEvent(last'.arg))
       /\ (dock_pc = "waiting" /\ dock_pc' # "waiting" /\ ~Signal.value) =>
            /\ clock = WAIT_TIMEOUT
            /\ last'.op = "wait_timeout"
       /\ (dock_pc = "waiting" /\ dock_pc' # "waiting") =>
            /\ dock_pc' = "docking"
            /\ dock_trace'[Len(dock_trace')] = "send_dock"]_vars

\* C33 witness: the completion event arrived before the call (the mission is
\* still marked completed), none arrived after it (the signal is not set), the
\* wait ended by the timeout and the DOCK send is under way
C33_Witness ==
    /\ last.op = "wait_timeout"
    /\ Handler.mission_completed
    /\ ~Signal.value
    /\ dock_pc = "docking"
    /\ dock_trace = <<"clear", "send_stop", "stop_ok", "notify_stopping", "wait",
                      "timeout", "send_dock">>

(***************************************************************************)
(* Claims about the transitions of the mission_completed flag (SpecMission) *)
(***************************************************************************)
\* the step dispatched an MQTT status update that changed the status code to 1
StatusChangedToMowing ==
    /\ last'.op = "message" /\ IsStatusMowingMessage(last'.arg)
    /\ device.status_code # 1

\* the step dispatched a mission-completion event
CompletionDispatched == last'.op = "message" /\ IsCompletionEvent(last'.arg)

\* the START send of a start_mowing() call was accepted
StartAccepted == start_pc = "sending" /\ last'.op = "start_mowing_result" /\ last'.ok

\* C34: the mission_completed flag is set by every handled mission-completion
\* event and by nothing else, and it is reset by an MQTT status update that
\* changes the status code to 1, by a start_mowing() whose START send was
\* accepted, and by nothing else: pose decodes, other status updates, pause()
\* and return_to_dock() leave it as it was.
C34_FlagTransitions ==
    [][/\ CompletionDispatched => Handler'.mission_completed
       /\ StatusChangedToMowing => ~Handler'.mission_completed
       /\ StartAccepted => ~Handler'.mission_completed
       /\ (~Handler.mission_completed /\ Handler'.mission_completed) =>
            CompletionDispatched
       /\ (Handler.mission_completed /\ ~Handler'.mission_completed) =>
            (StatusChangedToMowing \/ StartAccepted)]_vars

\* C34 witness: the mission was completed, then a pose frame was decoded, the
\* status went to 13, pause() was called and return_to_dock() ran to its DOCK
\* send, and the flag is still set
C34_Witness ==
    /\ Handler.mission_completed
    /\ Handler.x_coordinate # None
    /\ device.status_code = 13
    /\ pause_pc = "sending"
    /\ dock_pc = "docking"

(***************************************************************************)
(* Claims about the termination of return_to_dock() (SpecDockLive)          *)
(***************************************************************************)
\* C35: when every send is answered, a return_to_dock() call that is running
\* returns, whether or not a completion event is ever delivered; its wait
\* never lasts longer than the 30-second timeout, and the call returns right
\* after a rejected STOP or after the answer to its DOCK send.
C35_DockTerminates ==
    /\ (dock_pc # "idle") ~> (dock_pc = "idle")
    /\ [](clock <= WAIT_TIMEOUT)
    /\ []((dock_pc = "idle" /\ dock_trace # <<>>) =>
            \/ SubSeq(dock_trace, Len(dock_trace) - 1, Len(dock_trace))
                    = <<"stop_failed", "return_false">>
            \/ /\ dock_trace[Len(dock_trace)] \in {"return_true", "return_false"}
               /\ \E i \in 1..Len(dock_trace) : dock_trace[i] = "send_dock")

\* C35 witness: no completion event was delivered (the mission was never
\* marked completed), the wait ran into its timeout and the call returned
\* after its DOCK send was rejected
C35_Witness ==
    /\ dock_pc = "idle"
    /\ ~Handler.mission_completed /\ ~marked_after_progress /\ ~Signal.value
    /\ dock_trace = <<"clear", "send_stop", "stop_ok", "notify_stopping", "wait",
                      "timeout", "send_dock", "dock_failed", "return_false">>
    /\ last.op = "dock_result"

(***************************************************************************)
(* Claims about message shapes (SpecShapes)                                 *)
(***************************************************************************)
\* how many 'unhandled_mqtt' notifications a step emitted
UnhandledCount(out) == Cardinality({i \in 1..Len(out) : out[i][1] = "unhandled_mqtt"})

\* C36: a dispatched message produces one 'unhandled_mqtt' notification when
\* no branch of the dispatcher reported it handled, carrying the raw message
\* as the last notification of the step, and none when a branch reported it
\* handled; so never more than one.
C36_OneUnhandledIffNotHandled ==
    [][last'.op = "message" =>
          LET Reported(r) ==
                  /\ UnhandledCount(emitted') = IF r.handled THEN 0 ELSE 1
                  /\ ~r.handled =>
                         emitted'[Len(emitted')] =
                             Notification("unhandled_mqtt", last'.arg)
                  /\ Len(emitted') = Len(r.out) + UnhandledCount(emitted')
          IN  Reported(handle_branches(device, last'.arg))]_vars

\* C36 witness: the battery is 80 because a message whose first entry names
\* no piid was handled at its second entry, and the message after it, whose
\* event params name no eiid, was reported once as unhandled
C36_Witness ==
    /\ device.battery_percent = 80
    /\ last.op = "message"
    /\ "method" \in DOMAIN last.arg /\ "params" \in DOMAIN last.arg
    /\ last.arg.method = "event_occured"
    /\ "eiid" \notin DOMAIN last.arg.params
    /\ UnhandledCount(emitted) = 1
    /\ Len(emitted) = 1

\* a properties_changed message of one entry whose decode fails: a battery
\* without value or with a value that is no number, a pose frame whose
\* closing sentinel is wrong
DecodeFails(message) ==
    /\ "method" \in DOMAIN message /\ "params" \in DOMAIN message
    /\ message.method = "properties_changed"
    /\ Len(message.params) = 1
    /\ IsPropertyEntry(message.params[1])
    /\ \/ /\ Matches(BATTERY_PROPERTY, message.params[1].siid, message.params[1].piid)
          /\ ~HasValue(message.params[1]) \/ message.params[1].value.t # "int"
       \/ /\ Matches(POSE_COVERAGE_PROPERTY, message.params[1].siid,
                      message.params[1].piid)
          /\ HasValue(message.params[1])
          /\ message.params[1].value.t = "list"
          /\ message.params[1].value.v = PoseBad.v

\* C37: no dispatch of a message ends with an exception that reaches the
\* transport, whatever callbacks are registered; the dispatch runs to its end,
\* so every registered callback is called once for every notification of the
\* step; a message whose decode fails changes nothing of the device and is at
\* most reported as 'unhandled_mqtt'; and the message after a failed decode is
\* dispatched like any other.
C37_DispatchNeverRaises ==
    [][last'.op = "message" =>
          /\ ~handle_message_raises(device, last'.arg)
          /\ Len(called') = Len(emitted') * Len(device.property_callbacks)
          /\ DecodeFails(last'.arg) =>
                 /\ device' = device
                 /\ Len(emitted') = UnhandledCount(emitted')
          /\ (last.op = "message" /\ DecodeFails(last.arg)) =>
                 \E r \in {handle_message(device, last'.arg)} :
                     device' = r.device /\ emitted' = r.out]_vars

\* C37 witness: a pose frame with a wrong sentinel was dispatched after a
\* good frame had set the position, with three callbacks registered of which
\* the first raises; the position stands, the frame was reported as unhandled
\* and the two callbacks behind the raising one were called as well
C37_Witness ==
    /\ last.op = "message" /\ DecodeFails(last.arg)
    /\ Len(device.property_callbacks) = 3
    /\ device.property_callbacks[1].raises
    /\ device.pose_coverage_handler.x_coordinate # None
    /\ UnhandledCount(emitted) = 1
    /\ Len(called) = 3
    /\ called[3][1] = device.property_callbacks[3].id

(***************************************************************************)
(* Claims about the pose state over a session (SpecSession)                 *)
(***************************************************************************)
\* the position and the areas of a handler
PositionAndAreas(h) ==
    <<h.x_coordinate, h.y_coordinate, h.heading, h.segment,
      h.current_area_sqm, h.total_area_sqm>>

\* the step dispatched a pose frame of the given interior length
PoseFrameStep(length) ==
    /\ last'.op = "message"
    /\ last'.arg.method = "properties_changed"
    /\ IsEntryFor(last'.arg, 1, 4)
    /\ Len(last'.arg.params[1].value.v) = length + 2

\* C38: the path history gets shorter in no step but clear_path_history(),
\* which empties it, and it changes otherwise only in the decode of a full
\* frame; mark_mission_completed(), reset_mission_completion(), both steps
\* of start_mowing(), status messages and the completion event leave the
\* history, the position and the areas as they were; a short frame leaves
\* the history and the areas as they were.
C38_PoseStatePersists ==
    [][/\ Len(Handler'.path_history) < Len(Handler.path_history) =>
              last'.op = "clear_path_history"
       /\ last'.op = "clear_path_history" =>
              /\ Handler'.path_history = <<>>
              /\ PositionAndAreas(Handler') = PositionAndAreas(Handler)
       /\ Handler'.path_history # Handler.path_history =>
              last'.op = "clear_path_history" \/ PoseFrameStep(FULL_PAYLOAD_LENGTH)
       /\ ~(last'.op = "clear_path_history" \/ PoseFrameStep(FULL_PAYLOAD_LENGTH)
                \/ PoseFrameStep(SHORT_PAYLOAD_LENGTH)) =>
              PositionAndAreas(Handler') = PositionAndAreas(Handler)
       /\ PoseFrameStep(SHORT_PAYLOAD_LENGTH) =>
              /\ Handler'.path_history = Handler.path_history
              /\ Handler'.current_area_sqm = Handler.current_area_sqm
              /\ Handler'.total_area_sqm = Handler.total_area_sqm]_vars

\* C38 witness: a mission was completed at 100 percent with two points in the
\* history, and the start of the next mission reset the flag and left the
\* two points, the position and the progress in place
C38_Witness ==
    /\ last.op = "start_mowing_result" /\ last.ok
    /\ ~Handler.mission_completed
    /\ Len(Handler.path_history) = 2
    /\ Handler.path_history[1].x = 100 /\ Handler.path_history[2].x = -150
    /\ Handler.x_coordinate = Some(-7)
    /\ Handler.progress_percent = Some(Hundred)

====
